---- MODULE Spec2Model ----
(***************************************************************************)
(* A model of Wheatley, the bell-ringing bot (kneasle/wheatley):           *)
(*   - RowGenerator.permute and the place-notation row generators,         *)
(*   - the WaitForUserRhythm decorator over RegressionRhythm's waits,      *)
(*   - the ringing state machine of Bot (handlers and ringing loop).       *)
(* Bells are their 1-indexed numbers, a row is a sequence of bells, a      *)
(* stroke is TRUE for handstroke and FALSE for backstroke (Stroke wraps    *)
(* is_handstroke).  Times are integers counted in units of                 *)
(* WaitForUserRhythm.sleep_time.                                           *)
(***************************************************************************)
EXTENDS Integers, Sequences, FiniteSets, TLC

VARIABLES
    \* ---- a call of RowGenerator.permute ----
    pm_stage,       \* self.stage of the generator permute is called on
    pm_row,         \* the caller's row object (the argument `row`)
    pm_places,      \* the argument `places`
    pm_ret,         \* the returned row
    pm_arg,         \* history: the value of `row` when the call was made
    pm_called,      \* whether a call has been made
    \* ---- a row generator and its caller ----
    rg,             \* the row generator object
    rg_config,      \* the generator as its constructor built it
    fresh,          \* a second generator, constructed anew at each reset of rg and
                    \* given the same strokes and calls as rg since then
    gen_pn,         \* the place notation the last _gen_row chose
    gen_hist,       \* history: the calls "row", "bob", "single" made on rg since
                    \* it was constructed or last reset
    gen_was_reset,  \* history: reset() has been called on rg
    gen_single_ever,\* history: set_single() has been called on rg
    bob_span,       \* history: the places of the Bob last started that the
                    \* rows after it are still to use (its sequence less the
                    \* rows generated since it started)
    gen_alternating,\* history: every next_row since rg was constructed or last
                    \* reset was given Stroke.from_index of its index (the
                    \* strokes alternate from Hand)
    \* ---- a WaitForUserRhythm and the threads that call it ----
    assigned,       \* the tower's assignment of each bell to a user name
    wfu,            \* the WaitForUserRhythm object, its inner rhythm included
    ring,           \* the ringing loop's position and locals, the Look To
                    \* handler's position, and the Bot fields they use
    obs,            \* history: the rings received for the row being rung and
                    \* what the last wait_for_bell_time did
    \* ---- the Bot, its callbacks and its ringing loop ----
    bot,            \* the Bot object, its row generators included
    threads,        \* where the ringing loop and the callback in progress have
                    \* got to, with the locals they hold there
    touch,          \* history: the rows started and the calls accepted since
                    \* the last Look To
    \* ---- a RegressionRhythm and the callbacks that reach it ----
    rhy,            \* the RegressionRhythm object
    rhist,          \* history: the clock, the last call made on the rhythm,
                    \* the exception it raised and the locals it used
    reg,            \* a call of calculate_regression: its argument and what
                    \* it returned
    \* ---- the tower as the Bot's ticks meet it ----
    tower,          \* the Tower object: the stroke it holds for each bell
    rlog            \* history: the expectations, waits and ring requests of
                    \* the row being rung

pmVars == <<pm_stage, pm_row, pm_places, pm_ret, pm_arg, pm_called>>
genVars == <<rg, rg_config, fresh, gen_pn, gen_hist, gen_was_reset, gen_single_ever, bob_span,
             gen_alternating>>
wfuVars == <<assigned, wfu, ring, obs>>
botVars == <<bot, threads, touch>>
rhyVars == <<rhy, rhist, reg>>
twrVars == <<tower, rlog>>

vars == <<pmVars, genVars, wfuVars, botVars, rhyVars, twrVars>>

(***************************************************************************)
(* Bounds                                                                  *)
(***************************************************************************)
MaxStage == 4       \* largest stage permute is tried on
MaxPlaces == 2      \* longest place list tried
MaxRows == 10       \* rows asked of a generator between two resets
MaxCalls == 2       \* Bob and Single calls made between two resets

(***************************************************************************)
(* Primitive types                                                         *)
(***************************************************************************)
HANDSTROKE == TRUE
BACKSTROKE == FALSE

\* Stroke.from_index
from_index(index) == index % 2 = 0

\* Stroke.opposite
opposite(stroke) == ~stroke

\* helpers.rounds
rounds(number_of_bells) == [i \in 1..number_of_bells |-> i]

\* all the sequences over S of length at most n
SeqsUpTo(S, n) == UNION {[1..k -> S] : k \in 0..n}

\* the rows on n bells: the sequences of length n that hold every bell of 1..n
Rows(n) == {r \in [1..n -> 1..n] : \A b \in 1..n : \E p \in 1..n : r[p] = b}

\* a row is a permutation of 1..Len(row)
IsRow(row) == \A b \in 1..Len(row) : Cardinality({p \in 1..Len(row) : row[p] = b}) = 1

(***************************************************************************)
(* RowGenerator.permute                                                    *)
(***************************************************************************)
\* `i in places`
InPlaces(i, places) == \E k \in 1..Len(places) : places[k] = i

\* a swap that writes only one of the two places, so a bell is duplicated
SwapAtOneSided(new_row, i) == [new_row EXCEPT ![i] = new_row[i + 1]]

\* new_row[i - 1], new_row[i] = new_row[i], new_row[i - 1]   (0-indexed in the source)
SwapAt(new_row, i) ==
    [p \in 1..Len(new_row) |->
        IF p = i THEN new_row[i + 1] ELSE IF p = i + 1 THEN new_row[i] ELSE new_row[p]]

\* the while loop of permute, entered with loop variable i
RECURSIVE PermuteLoop(_, _, _, _)
PermuteLoop(stage, new_row, places, i) ==
    IF i < stage
    THEN IF InPlaces(i, places)
         THEN PermuteLoop(stage, new_row, places, i + 1)
         ELSE PermuteLoop(stage, SwapAt(new_row, i), places, i + 2)
    ELSE new_row

\* the start value of i: 2 when the first place is even (implicit lead), else 1
PermuteStart(places) == IF Len(places) > 0 /\ places[1] % 2 = 0 THEN 2 ELSE 1

\* the row permute returns
permute(stage, row, places) == PermuteLoop(stage, row, places, PermuteStart(places))

\* the whole call: `new_row = list(row)` copies, so the argument object keeps
\* its contents and the result is a new row
PermuteCall(stage, row, places) ==
    [row |-> row, ret |-> permute(stage, row, places)]

(***************************************************************************)
(* Place notation text.  A notation string is modelled as the sequence of  *)
(* its characters.                                                         *)
(***************************************************************************)
BELL_NAMES == <<"1", "2", "3", "4", "5", "6", "7", "8", "9", "0", "E", "T", "A", "B", "C", "D">>

\* helpers.convert_bell_string: BELL_NAMES.index(bell) + 1; 0 stands for the ValueError
convert_bell_string(bell) ==
    IF \E k \in 1..Len(BELL_NAMES) : BELL_NAMES[k] = bell
    THEN CHOOSE k \in 1..Len(BELL_NAMES) : BELL_NAMES[k] = bell
    ELSE 0

\* helpers.convert_to_bell_string
convert_to_bell_string(bell) == BELL_NAMES[bell]

\* str.split(sep) for a one-character separator
RECURSIVE SplitOn(_, _)
SplitOn(str, sep) ==
    IF \A k \in 1..Len(str) : str[k] # sep
    THEN <<str>>
    ELSE LET k == CHOOSE k \in 1..Len(str) : str[k] = sep /\ \A j \in 1..(k - 1) : str[j] # sep
         IN  <<SubSeq(str, 1, k - 1)>> \o SplitOn(SubSeq(str, k + 1, Len(str)), sep)

\* the number of consecutive dots of str from position p on
RECURSIVE DotsFrom(_, _)
DotsFrom(str, p) == IF p <= Len(str) /\ str[p] = "." THEN 1 + DotsFrom(str, p + 1) ELSE 0

\* re.sub("[.]*[x-][.]*", ".-.", str), scanning from position p
RECURSIVE SubCross(_, _)
SubCross(str, p) ==
    IF p > Len(str) THEN <<>>
    ELSE LET d == DotsFrom(str, p)
         IN  IF p + d <= Len(str) /\ str[p + d] \in {"x", "-"}
             THEN <<".", "-", ".">> \o SubCross(str, p + d + 1 + DotsFrom(str, p + d + 1))
             ELSE <<str[p]>> \o SubCross(str, p + 1)

\* str.strip(".&+ ")
RECURSIVE Strip(_)
Strip(str) ==
    IF Len(str) > 0 /\ str[1] \in {".", "&", "+", " "} THEN Strip(Tail(str))
    ELSE IF Len(str) > 0 /\ str[Len(str)] \in {".", "&", "+", " "}
         THEN Strip(SubSeq(str, 1, Len(str) - 1))
         ELSE str

\* str.replace("..", "."), scanning from position p
RECURSIVE ReplaceDotDot(_, _)
ReplaceDotDot(str, p) ==
    IF p > Len(str) THEN <<>>
    ELSE IF p < Len(str) /\ str[p] = "." /\ str[p + 1] = "."
         THEN <<".">> \o ReplaceDotDot(str, p + 2)
         ELSE <<str[p]>> \o ReplaceDotDot(str, p + 1)

\* list(reversed(seq))
Reverse(seq) == [k \in 1..Len(seq) |-> seq[Len(seq) + 1 - k]]

\* list(itertools.chain.from_iterable(seqs))
RECURSIVE Chain(_)
Chain(seqs) == IF seqs = <<>> THEN <<>> ELSE Head(seqs) \o Chain(Tail(seqs))

\* a ConvertSection whose mirrored half repeats the pivot
ConvertSectionPivotTwice(pn_str, expect_symmetric) ==
    LET symmetric == IF expect_symmetric
                     THEN ~(Len(pn_str) > 0 /\ pn_str[1] = "+")
                     ELSE Len(pn_str) > 0 /\ pn_str[1] = "&"
        converted == [k \in 1..Len(SplitOn(ReplaceDotDot(Strip(SubCross(pn_str, 1)), 1), ".")) |->
                        LET place == SplitOn(ReplaceDotDot(Strip(SubCross(pn_str, 1)), 1), ".")[k]
                        IN  IF place = <<"-">> THEN <<>>
                            ELSE [j \in 1..Len(place) |-> convert_bell_string(place[j])]]
    IN  IF symmetric THEN converted \o Reverse(converted) ELSE converted

\* helpers.convert_pn for a string without a comma
ConvertSection(pn_str, expect_symmetric) ==
    LET symmetric == IF expect_symmetric
                     THEN ~(Len(pn_str) > 0 /\ pn_str[1] = "+")
                     ELSE Len(pn_str) > 0 /\ pn_str[1] = "&"
        dot_delimited_string == Strip(SubCross(pn_str, 1))
        deduplicated_string == SplitOn(ReplaceDotDot(dot_delimited_string, 1), ".")
        converted == [k \in 1..Len(deduplicated_string) |->
                        IF deduplicated_string[k] = <<"-">>
                        THEN <<>>
                        ELSE [j \in 1..Len(deduplicated_string[k]) |->
                                convert_bell_string(deduplicated_string[k][j])]]
    IN  IF symmetric
        THEN converted \o Reverse(SubSeq(converted, 1, Len(converted) - 1))
        ELSE converted

\* helpers.convert_pn
convert_pn(pn_str, expect_symmetric) ==
    IF \E k \in 1..Len(pn_str) : pn_str[k] = ","
    THEN LET parts == SplitOn(pn_str, ",")
         IN  Chain([k \in 1..Len(parts) |-> ConvertSection(parts[k], TRUE)])
    ELSE ConvertSection(pn_str, expect_symmetric)

(***************************************************************************)
(* Row generators.  A generator object is a record; the fields has_bob,    *)
(* has_single, index and row are RowGenerator's _has_bob, _has_single,     *)
(* _index and _row.  A CallDef is the sequence of its (index, notation)    *)
(* items in insertion order.                                               *)
(***************************************************************************)
\* PlaceNotationGenerator.DefaultBob and DefaultSingle
DefaultBob == << <<0, <<"1", "4">> >> >>
DefaultSingle == << <<0, <<"1", "2", "3", "4">> >> >>

\* a parse_call_dict that files each call under its lead-index as given
ParseCallDictAtIndex(unparsed_calls, lead_len) ==
    LET key(k) == unparsed_calls[k][1] % lead_len
        keys == {key(k) : k \in 1..Len(unparsed_calls)}
        last(i) == CHOOSE k \in 1..Len(unparsed_calls) :
                      /\ key(k) = i
                      /\ \A j \in (k + 1)..Len(unparsed_calls) : key(j) # i
    IN  [i \in keys |-> convert_pn(unparsed_calls[last(i)][2], FALSE)]

\* parse_call_dict inside PlaceNotationGenerator.__init__: a later item
\* overwrites an earlier one with the same normalised key
parse_call_dict(unparsed_calls, lead_len) ==
    LET key(k) == (unparsed_calls[k][1] - 1) % lead_len
        keys == {key(k) : k \in 1..Len(unparsed_calls)}
        last(i) == CHOOSE k \in 1..Len(unparsed_calls) :
                      /\ key(k) = i
                      /\ \A j \in (k + 1)..Len(unparsed_calls) : key(j) # i
    IN  [i \in keys |-> convert_pn(unparsed_calls[last(i)][2], FALSE)]

\* RowGenerator.__init__ followed by PlaceNotationGenerator.__init__
PlaceNotationGenerator(stage, method, bob, single, start_index) ==
    LET method_pn == convert_pn(method, FALSE)
    IN  [kind |-> "place_notation",
         stage |-> stage,
         has_bob |-> FALSE, has_single |-> FALSE, index |-> 0, row |-> rounds(stage),
         method_pn |-> method_pn,
         lead_len |-> Len(method_pn),
         start_index |-> start_index,
         bobs_pn |-> parse_call_dict(bob, Len(method_pn)),
         singles_pn |-> parse_call_dict(single, Len(method_pn)),
         generating_call_pn |-> <<>>]

\* RowGenerator.__init__ for PlainHuntGenerator, which adds no fields of its own
PlainHuntGenerator(stage) ==
    [kind |-> "plain_hunt",
     stage |-> stage,
     has_bob |-> FALSE, has_single |-> FALSE, index |-> 0, row |-> rounds(stage),
     method_pn |-> <<>>, lead_len |-> 0, start_index |-> 0,
     bobs_pn |-> <<>>, singles_pn |-> <<>>, generating_call_pn |-> <<>>]

\* ".".join(parts)
RECURSIVE JoinDots(_)
JoinDots(parts) ==
    IF Len(parts) = 0 THEN <<>>
    ELSE IF Len(parts) = 1 THEN parts[1]
         ELSE parts[1] \o <<".">> \o JoinDots(Tail(parts))

\* PlaceNotationGenerator.grandsire
grandsire(stage) ==
    LET stage_bell == convert_to_bell_string(stage)
        cross_notation == IF stage % 2 = 1 THEN stage_bell ELSE "-"
        main_body == [k \in 1..(2 * stage) |->
                        IF k = 1 THEN <<"3">>
                        ELSE IF (k - 1) % 2 = 1 THEN <<"1">> ELSE <<cross_notation>>]
    IN  PlaceNotationGenerator(stage, JoinDots(main_body),
                               << <<-1, <<"3">> >> >>,
                               << <<-1, <<"3", ".", "1", "2", "3">> >> >>, 0)

\* RowGenerator.reset_calls
reset_calls(g) == [g EXCEPT !.has_bob = FALSE, !.has_single = FALSE]

\* RowGenerator.reset, which no generator overrides
reset(g) ==
    [g EXCEPT !.has_bob = FALSE, !.has_single = FALSE, !.index = 0, !.row = rounds(g.stage)]

\* RowGenerator.set_bob
set_bob(g) == [g EXCEPT !.has_bob = TRUE]

\* RowGenerator.set_single
set_single(g) == [g EXCEPT !.has_single = TRUE]

\* `calls_pn.get(lead_index)` is truthy: the key is there with a non-empty list
HasCall(calls_pn, lead_index) ==
    lead_index \in DOMAIN calls_pn /\ Len(calls_pn[lead_index]) > 0

\* the lead index _gen_row computes
LeadIndex(g, index) == (index + g.start_index) % g.lead_len

\* a _gen_row that tests the pending Single before the pending Bob
PlaceNotationGenRowSingleFirst(g, previous_row, stroke, index) ==
    LET lead_index == LeadIndex(g, index)
        g1 == IF g.has_single /\ HasCall(g.singles_pn, lead_index)
              THEN reset_calls([g EXCEPT !.generating_call_pn = g.singles_pn[lead_index]])
              ELSE IF g.has_bob /\ HasCall(g.bobs_pn, lead_index)
                   THEN reset_calls([g EXCEPT !.generating_call_pn = g.bobs_pn[lead_index]])
                   ELSE g
        in_call == Len(g1.generating_call_pn) > 0
        place_notation == IF in_call THEN Head(g1.generating_call_pn)
                          ELSE g.method_pn[lead_index + 1]
        g2 == IF in_call THEN [g1 EXCEPT !.generating_call_pn = Tail(@)] ELSE g1
    IN  [g |-> g2, pn |-> place_notation, row |-> permute(g.stage, previous_row, place_notation)]

\* PlaceNotationGenerator._gen_row: the generator after the call, the place
\* notation it chose and the row it returns
PlaceNotationGenRow(g, previous_row, stroke, index) ==
    LET lead_index == LeadIndex(g, index)
        g1 == IF g.has_bob /\ HasCall(g.bobs_pn, lead_index)
              THEN reset_calls([g EXCEPT !.generating_call_pn = g.bobs_pn[lead_index]])
              ELSE IF g.has_single /\ HasCall(g.singles_pn, lead_index)
                   THEN reset_calls([g EXCEPT !.generating_call_pn = g.singles_pn[lead_index]])
                   ELSE g
        in_call == Len(g1.generating_call_pn) > 0
        place_notation == IF in_call THEN Head(g1.generating_call_pn)
                          ELSE g.method_pn[lead_index + 1]
        g2 == IF in_call THEN [g1 EXCEPT !.generating_call_pn = Tail(@)] ELSE g1
    IN  [g |-> g2, pn |-> place_notation, row |-> permute(g.stage, previous_row, place_notation)]

\* a _gen_row that crosses every pair at both strokes
PlainHuntGenRowAllCross(g, previous_row, stroke, index) ==
    [g |-> g, pn |-> <<>>, row |-> permute(g.stage, previous_row, <<>>)]

\* PlainHuntGenerator._gen_row
PlainHuntGenRow(g, previous_row, stroke, index) ==
    LET place_notation == IF stroke = HANDSTROKE THEN <<>> ELSE <<1, g.stage>>
    IN  [g |-> g, pn |-> place_notation, row |-> permute(g.stage, previous_row, place_notation)]

\* the dispatch of self._gen_row
GenRow(g, previous_row, stroke, index) ==
    IF g.kind = "place_notation"
    THEN PlaceNotationGenRow(g, previous_row, stroke, index)
    ELSE IF g.kind = "complib"
         THEN [g |-> g,
               row |-> IF index < Len(g.loaded_rows) THEN g.loaded_rows[index + 1].row
                       ELSE rounds(g.stage)]
         ELSE PlainHuntGenRow(g, previous_row, stroke, index)

\* the calls _gen_row_and_calls returns with the row at `index`: those of the
\* loaded row for a composition, none for any other generator
GenCalls(g, index) ==
    IF g.kind = "complib" /\ index < Len(g.loaded_rows)
    THEN g.loaded_rows[index + 1].calls
    ELSE <<>>

\* RowGenerator.next_row_and_calls: the generator after the call; its row
\* field is the row returned
next_row_and_calls(g, stroke) ==
    LET r == GenRow(g, g.row, stroke, g.index)
    IN  [r.g EXCEPT !.row = r.row, !.index = g.index + 1]

\* process_call_string of ComplibCompositionGenerator.__init__, from the
\* calls already split at ";" and stripped: 'Stand' is removed
process_call_string(calls) == SelectSeq(calls, LAMBDA c : c # "Stand")

\* the number of leading rows equal to the first row
RECURSIVE StartingRounds(_, _)
StartingRounds(unparsed_rows, n) ==
    IF n < Len(unparsed_rows) /\ unparsed_rows[n + 1].row = unparsed_rows[1].row
    THEN StartingRounds(unparsed_rows, n + 1)
    ELSE n

\* ComplibCompositionGenerator.__init__ from the rows of the response, each
\* a row and its calls
ComplibCompositionGenerator(stage, unparsed_rows) ==
    LET num_starting_rounds == StartingRounds(unparsed_rows, 0)
        loaded_rows == [k \in 1..Len(unparsed_rows) |->
                           [row |-> unparsed_rows[k].row,
                            calls |-> process_call_string(unparsed_rows[k].calls)]]
        with_calls == {i \in 0..(num_starting_rounds - 1) : loaded_rows[i + 1].calls # <<>>}
    IN  [kind |-> "complib",
         stage |-> stage,
         has_bob |-> FALSE, has_single |-> FALSE, index |-> 0, row |-> rounds(stage),
         start_stroke |-> from_index(num_starting_rounds),
         loaded_rows |-> SubSeq(loaded_rows, num_starting_rounds + 1, Len(loaded_rows)),
         early_calls |-> [k \in {num_starting_rounds - i : i \in with_calls} |->
                             loaded_rows[num_starting_rounds - k + 1].calls]]

\* RowGenerator.early_calls and ComplibCompositionGenerator's override
early_calls(g) ==
    IF g.kind = "complib" THEN g.early_calls ELSE [k \in {} |-> <<>>]

(***************************************************************************)
(* WaitForUserRhythm (rhythm/wait_for_user.py) over the parts of           *)
(* RegressionRhythm (rhythm/regression.py) that its waits depend on        *)
(***************************************************************************)
NumBells == 2       \* bells in the tower
MaxTime == 0        \* largest clock reading handed to the rhythm by a caller
MaxDelay == 2       \* polls of sleep_time the rhythm may accumulate as delay
MaxPolls == 2       \* polls counted after a request to return to the mainloop
MaxRowNumber == 1   \* largest row number of a touch
MaxTouches == 2     \* Look To calls answered
MaxEvents == 5      \* callbacks the tower makes

Bells == 1..NumBells
Times == 0..MaxTime

\* the user name the bot's own bells are assigned to (Bot._user_name)
Wheatley == "Wheatley"
Users == {"a", "b"}
\* a bell that is no key of _bells_to_user
NoUser == "none"

\* LOOK_TO_DURATION, in units of sleep_time
LOOK_TO_DURATION == 300

\* Bot._user_assigned_bell
user_assigned_bell(bell) == assigned[bell] # Wheatley

\* a cleared defaultdict(lambda: set()): every user has the empty set.  A set
\* holds Bell and Stroke objects, which are never equal to each other.
EmptyRung == [u \in Users |-> [bells |-> {}, strokes |-> {}]]

\* len() of one user's set of _rung_bells
RungLen(s) == Cardinality(s.bells) + Cardinality(s.strokes)

\* RegressionRhythm after __init__: should_return is _should_return_to_mainloop,
\* start_inf is _start_time == float('inf'), firsts holds the keys of
\* _expected_bells whose index is row 0, place 0, last_time is the real time
\* the last call that takes one was given
NewRegression ==
    [should_return |-> FALSE, start_inf |-> FALSE, firsts |-> {},
     last_time |-> 0]

\* WaitForUserRhythm.__init__
NewWaitForUser ==
    [current_stroke |-> HANDSTROKE,
     rung_bells |-> [s \in BOOLEAN |-> EmptyRung],
     early_bells |-> [s \in BOOLEAN |-> {}],
     bells_to_user |-> [b \in Bells |-> NoUser],
     wait_user_count |-> [u \in Users |-> 0],
     delay |-> 0,
     should_return_to_mainloop |-> FALSE,
     inner |-> NewRegression]

\* RegressionRhythm.expect_bell
RegExpectBell(r, expected_bell, row_number, place, expected_stroke) ==
    [r EXCEPT !.firsts = IF row_number = 0 /\ place = 0
                         THEN @ \cup {<<expected_bell, expected_stroke>>}
                         ELSE @ \ {<<expected_bell, expected_stroke>>}]

\* RegressionRhythm.on_bell_ring: the ring of the bell expected at blow time 0
\* sets _start_time; an expected key is deleted
RegOnBellRing(r, bell, stroke, real_time) ==
    [r EXCEPT !.start_inf = IF <<bell, stroke>> \in r.firsts THEN FALSE ELSE @,
              !.firsts = @ \ {<<bell, stroke>>},
              !.last_time = real_time]

\* RegressionRhythm.initialise_line
RegInitialiseLine(r, user_controls_treble, start_time) ==
    [r EXCEPT !.start_inf = user_controls_treble,
              !.last_time = start_time]

\* WaitForUserRhythm.return_to_mainloop
return_to_mainloop(w) ==
    [w EXCEPT !.should_return_to_mainloop = TRUE, !.inner.should_return = TRUE]

\* WaitForUserRhythm.expect_bell
expect_bell(w, expected_bell, user, row_number, place, expected_stroke) ==
    LET w1 == [w EXCEPT !.inner = RegExpectBell(@, expected_bell, row_number, place,
                                                expected_stroke)]
        w2 == IF expected_stroke # w1.current_stroke
              THEN [w1 EXCEPT !.current_stroke = expected_stroke,
                              !.rung_bells[expected_stroke] = EmptyRung,
                              !.early_bells[opposite(expected_stroke)] = {},
                              !.wait_user_count = [u \in Users |-> 0]]
              ELSE w1
        w3 == IF expected_bell \in w2.early_bells[expected_stroke]
              THEN [w2 EXCEPT !.rung_bells[expected_stroke][user].strokes =
                                  @ \cup {expected_stroke}]
              ELSE w2
    IN  [w3 EXCEPT !.bells_to_user[expected_bell] = user]

\* WaitForUserRhythm.change_setting
change_setting(w, real_time) ==
    [w EXCEPT !.inner.last_time = real_time - w.delay]

\* WaitForUserRhythm.on_bell_ring; a bell that is no key of _bells_to_user
\* raises KeyError after the inner rhythm has been told
on_bell_ring(w, bell, stroke, real_time) ==
    LET w1 == [w EXCEPT !.inner = RegOnBellRing(@, bell, stroke, real_time - w.delay)]
        user == w1.bells_to_user[bell]
    IN  IF stroke = w1.current_stroke
        THEN IF user = NoUser
             THEN w1
             ELSE [w1 EXCEPT !.rung_bells[w1.current_stroke][user].bells = @ \cup {bell},
                             !.early_bells[opposite(w1.current_stroke)] = @ \ {bell}]
        ELSE [w1 EXCEPT !.early_bells[opposite(w1.current_stroke)] = @ \cup {bell}]

\* WaitForUserRhythm.initialise_line up to its sleep
InitialiseLineClear(w) ==
    [w EXCEPT !.rung_bells = [s \in BOOLEAN |-> EmptyRung],
              !.early_bells = [s \in BOOLEAN |-> {}],
              !.current_stroke = HANDSTROKE]

\* WaitForUserRhythm.initialise_line after its sleep
InitialiseLineInner(w, user_controls_treble, start_time) ==
    [w EXCEPT !.inner = RegInitialiseLine(@, user_controls_treble, start_time - w.delay)]

\* WaitForUserRhythm.wait_for_bell_time up to the inner rhythm's wait
WaitEnter(w, current_time, stroke) ==
    [w EXCEPT !.current_stroke = stroke,
              !.inner.last_time = current_time - w.delay]

\* the loop condition of WaitForUserRhythm.wait_for_bell_time
StillWaiting(w, user, stroke) ==
    w.wait_user_count[user] > RungLen(w.rung_bells[stroke][user])

\* the end of WaitForUserRhythm.wait_for_bell_time
WaitLeave(w, delay_for_user) ==
    [w EXCEPT !.delay = @ + delay_for_user, !.should_return_to_mainloop = FALSE]

\* Bot.expect_bell for every bell of the row, from place `index` on
RECURSIVE ExpectRow(_, _, _, _)
ExpectRow(w, row, row_number, index) ==
    IF index >= Len(row) THEN w
    ELSE LET bell == row[index + 1]
             w1 == IF user_assigned_bell(bell)
                   THEN expect_bell(w, bell, assigned[bell], row_number, index,
                                    from_index(row_number))
                   ELSE w
         IN  ExpectRow(w1, row, row_number, index + 1)

(***************************************************************************)
(* RegressionRhythm (rhythm/regression.py) in full: the regression line,   *)
(* the expectations, the data set and the settings.  Times are whole       *)
(* seconds.  A number the code holds as a float is the exact rational      *)
(* <<n, d>> in lowest terms with d > 0; _start_time, which can be infinite *)
(* or not a number, carries its kind.                                      *)
(***************************************************************************)
MaxDataset == 3     \* max_bells_in_dataset of the rhythm
MaxClock == 2       \* seconds of wall-clock time the callbacks are given
MaxRings == 3       \* rings of users' bells the rhythm is told of
MaxSettings == 2    \* settings messages the rhythm is sent

RECURSIVE Gcd(_, _)
Gcd(a, b) == IF b = 0 THEN a ELSE Gcd(b, a % b)

Abs(n) == IF n < 0 THEN 0 - n ELSE n

Q(n, d) ==
    LET g == Gcd(Abs(n), Abs(d))
    IN  IF d < 0 THEN <<(0 - n) \div g, (0 - d) \div g>> ELSE <<n \div g, d \div g>>

QInt(n) == <<n, 1>>
QAdd(a, b) == Q(a[1] * b[2] + b[1] * a[2], a[2] * b[2])
QSub(a, b) == Q(a[1] * b[2] - b[1] * a[2], a[2] * b[2])
QMul(a, b) ==
    LET g1 == Gcd(Abs(a[1]), b[2])
        g2 == Gcd(Abs(b[1]), a[2])
    IN  Q((a[1] \div g1) * (b[1] \div g2), (a[2] \div g2) * (b[2] \div g1))
QDiv(a, b) == QMul(a, IF b[1] < 0 THEN <<0 - b[2], 0 - b[1]>> ELSE <<b[2], b[1]>>)
QLess(a, b) == a[1] * b[2] < b[1] * a[2]

Fin(q) == [kind |-> "fin", q |-> q]
Inf == [kind |-> "inf", q |-> QInt(0)]
NaN == [kind |-> "nan", q |-> QInt(0)]

WEIGHT_REJECTION_THRESHOLD == <<1, 1000>>


RECURSIVE SeqSum(_)
SeqSum(s) == IF Len(s) = 0 THEN 0 ELSE Head(s) + SeqSum(Tail(s))

RegressionThroughOrigin(data_set) ==
    LET n == Len(data_set)
        W(k) == data_set[k].w[1] * (64 \div data_set[k].w[2])
        Sbb == SeqSum([k \in 1..n |-> W(k) * data_set[k].b * data_set[k].b])
        Sbr == SeqSum([k \in 1..n |-> W(k) * data_set[k].b * data_set[k].r])
    IN  IF Sbb = 0 THEN [singular |-> TRUE, start |-> QInt(0), interval |-> QInt(0)]
        ELSE [singular |-> FALSE, start |-> QInt(0), interval |-> Q(Sbr, Sbb)]

\* calculate_regression: the weighted least-squares line through the data
\* set, (X^T W X)^-1 X^T W y in closed form; numpy.linalg.inv raises
\* LinAlgError for a matrix that has no inverse.  The weights of a data set
\* are whole multiples of 1/64 and are counted in that unit, which leaves
\* the line as it is.
calculate_regression(data_set) ==
    LET n == Len(data_set)
        W(k) == data_set[k].w[1] * (64 \div data_set[k].w[2])
        b(k) == data_set[k].b
        r(k) == data_set[k].r
        Sw == SeqSum([k \in 1..n |-> W(k)])
        Sb == SeqSum([k \in 1..n |-> W(k) * b(k)])
        Sbb == SeqSum([k \in 1..n |-> W(k) * b(k) * b(k)])
        Sr == SeqSum([k \in 1..n |-> W(k) * r(k)])
        Sbr == SeqSum([k \in 1..n |-> W(k) * b(k) * r(k)])
        det == Sw * Sbb - Sb * Sb
    IN  IF det = 0 THEN [singular |-> TRUE, start |-> QInt(0), interval |-> QInt(0)]
        ELSE [singular |-> FALSE,
              start |-> Q(Sbb * Sr - Sb * Sbr, det),
              interval |-> Q(Sw * Sbr - Sb * Sr, det)]

\* peal_speed_to_blow_interval
peal_speed_to_blow_interval(peal_minutes, num_bells) ==
    QDiv(QDiv(QInt(peal_minutes * 60), QInt(2520)), QInt(num_bells * 2 + 1))

\* lerp
lerp(a, b, t) == QAdd(QMul(QSub(QInt(1), t), a), QMul(t, b))

\* lerp whose second argument is _start_time: 0 * inf is not a number, and
\* so is any sum with it
LerpTime(a, b, t) ==
    IF b.kind = "fin" THEN Fin(lerp(a, b.q, t))
    ELSE IF b.kind = "inf" /\ t # QInt(0) THEN Inf
         ELSE NaN

\* RegressionRhythm.__init__
RegressionRhythm(inertia, peal_speed, initial_inertia, min_bells_in_dataset, max_bells_in_dataset) ==
    [preferred_inertia |-> inertia, initial_inertia |-> initial_inertia,
     peal_speed |-> peal_speed, handstroke_gap |-> 1,
     min_bells_in_dataset |-> min_bells_in_dataset,
     max_bells_in_dataset |-> max_bells_in_dataset,
     stage |-> 0, start_time |-> Fin(QInt(0)), blow_interval |-> QInt(0),
     number_of_user_controlled_bells |-> 0,
     expected_bells |-> [k \in {} |-> <<0, 0>>],
     data_set |-> <<>>]

\* RegressionRhythm.index_to_blow_time
index_to_blow_time(r, row_number, place) ==
    row_number * r.stage + place + (row_number \div 2) * r.handstroke_gap

InertiaPreferred(r, row_number) == r.preferred_inertia

\* the local `inertia` of RegressionRhythm._add_data_point
InertiaOf(r, row_number) ==
    IF row_number > 0 THEN r.preferred_inertia ELSE r.initial_inertia

\* whether _add_data_point computes a new line from the data set `held`
Regresses(r, row_number, held) ==
    /\ InertiaOf(r, row_number) # QInt(1)
    /\ Len(held) >= r.min_bells_in_dataset

DataSetUnfiltered(r, row_number, place, real_time, weight, n) ==
    LET appended == Append(r.data_set,
                           [b |-> index_to_blow_time(r, row_number, place),
                            r |-> real_time, w |-> weight, n |-> n])
    IN  IF Len(appended) >= r.max_bells_in_dataset THEN Tail(appended) ELSE appended

\* the data set as RegressionRhythm._add_data_point leaves it: the point
\* appended, the low weights filtered out, the first entry deleted.  The
\* field n of a point is history: the number of the call that added it.
DataSetAfter(r, row_number, place, real_time, weight, n) ==
    LET appended == Append(r.data_set,
                           [b |-> index_to_blow_time(r, row_number, place),
                            r |-> real_time, w |-> weight, n |-> n])
        kept == SelectSeq(appended, LAMBDA d : QLess(WEIGHT_REJECTION_THRESHOLD, d.w))
    IN  IF Len(kept) >= r.max_bells_in_dataset THEN Tail(kept) ELSE kept

\* the exception that escapes RegressionRhythm._add_data_point
AddDataPointRaises(r, row_number, place, real_time, weight, n) ==
    LET held == DataSetAfter(r, row_number, place, real_time, weight, n)
    IN  IF Regresses(r, row_number, held) /\ calculate_regression(held).singular
        THEN "LinAlgError" ELSE ""

\* RegressionRhythm._add_data_point; the object is left with its new data
\* set and its old line when calculate_regression raises
add_data_point(r, row_number, place, real_time, weight, n) ==
    LET held == DataSetAfter(r, row_number, place, real_time, weight, n)
        r1 == [r EXCEPT !.data_set = held]
        inertia == InertiaOf(r, row_number)
        line == calculate_regression(held)
    IN  IF Regresses(r, row_number, held) /\ ~line.singular
        THEN [r1 EXCEPT !.start_time = LerpTime(line.start, @, inertia),
                        !.blow_interval = lerp(line.interval, @, inertia)]
        ELSE r1

\* math.exp(- diff ** 2) for diff = real_time_to_blow_time(real_time) -
\* expected_blow_time, to the resolution of the weights: the value at the
\* whole places of |diff|, which from three places on is below
\* WEIGHT_REJECTION_THRESHOLD.  A line whose start is infinite or not a
\* number, or whose interval the regression made 0, gives a diff that is
\* infinite or not a number, and a weight that is no greater than any
\* threshold.
WeightOf(r, real_time, expected_blow_time) ==
    IF r.start_time.kind # "fin" \/ r.blow_interval = QInt(0) THEN QInt(0)
    ELSE LET diff == QSub(QDiv(QSub(QInt(real_time), r.start_time.q), r.blow_interval),
                          QInt(expected_blow_time))
             places == Abs(diff[1]) \div diff[2]
         IN  IF places = 0 THEN QInt(1)
             ELSE IF places = 1 THEN <<3, 8>>
                  ELSE IF places = 2 THEN <<1, 64>>
                       ELSE QInt(0)

\* RegressionRhythm.expect_bell
regression_expect_bell(r, expected_bell, row_number, place, expected_stroke) ==
    [r EXCEPT !.expected_bells =
        [k \in DOMAIN @ \cup {<<expected_bell, expected_stroke>>} |->
            IF k = <<expected_bell, expected_stroke>> THEN <<row_number, place>> ELSE @[k]]]

\* RegressionRhythm.on_bell_ring: the object it leaves and the exception
\* that escapes it, which leaves the expectation in place
regression_on_bell_ring(r, bell, stroke, real_time, n) ==
    IF <<bell, stroke>> \in DOMAIN r.expected_bells
    THEN LET row_number == r.expected_bells[<<bell, stroke>>][1]
             place == r.expected_bells[<<bell, stroke>>][2]
             expected_blow_time == index_to_blow_time(r, row_number, place)
             diff_weight == WeightOf(r, real_time, expected_blow_time)
             r1 == IF expected_blow_time = 0
                   THEN [r EXCEPT !.start_time = Fin(QInt(real_time))]
                   ELSE r
             weight == IF Len(r1.data_set) <= 1 THEN QInt(1) ELSE diff_weight
             r2 == add_data_point(r1, row_number, place, real_time, weight, n)
             raised == AddDataPointRaises(r1, row_number, place, real_time, weight, n)
         IN  IF raised # "" THEN [obj |-> r2, raised |-> raised]
             ELSE [obj |-> [r2 EXCEPT !.expected_bells =
                               [k \in DOMAIN @ \ {<<bell, stroke>>} |-> @[k]]],
                   raised |-> ""]
    ELSE [obj |-> r, raised |-> ""]

\* RegressionRhythm.initialise_line
regression_initialise_line(r, stage, user_controls_treble, start_time, number_of_user_controlled_bells, n) ==
    LET r1 == [r EXCEPT !.number_of_user_controlled_bells = number_of_user_controlled_bells,
                        !.stage = stage,
                        !.data_set = <<>>,
                        !.blow_interval = peal_speed_to_blow_interval(r.peal_speed, stage)]
    IN  IF ~user_controls_treble
        THEN [add_data_point(r1, 0, 0, start_time, QInt(1), n)
                  EXCEPT !.start_time = Fin(QInt(start_time))]
        ELSE [r1 EXCEPT !.start_time = Inf]

\* a value of a settings message: a JSON number, string, boolean or null
JNum(n) == [type |-> "num", n |-> n, s |-> "", b |-> FALSE]
JStr(s) == [type |-> "str", n |-> 0, s |-> s, b |-> FALSE]
JBool(b) == [type |-> "bool", n |-> 0, s |-> "", b |-> b]
JNull == [type |-> "null", n |-> 0, s |-> "", b |-> FALSE]

\* the outcome of a conversion: the value, or the exception raised
Value(v) == [raised |-> "", value |-> v]
Raise(e) == [raised |-> e, value |-> 0]

\* float(value) and int(value) of Python on the values of the model; a
\* boolean is the integer 1 or 0
ToNumber(value) ==
    IF value.type = "num" THEN Value(value.n)
    ELSE IF value.type = "bool" THEN Value(IF value.b THEN 1 ELSE 0)
    ELSE IF value.type = "null" THEN Raise("TypeError")
    ELSE IF value.s = "1" THEN Value(1)
    ELSE IF value.s = "420" THEN Value(420)
    ELSE Raise("ValueError")

\* to_bool (parsing.py): membership of the lists ["True", "true", True] and
\* ["False", "false", False] is by ==, and 1 == True, 0 == False
to_bool(value) ==
    IF \/ value.type = "str" /\ value.s \in {"True", "true"}
       \/ value.type = "bool" /\ value.b
       \/ value.type = "num" /\ value.n = 1
    THEN [raised |-> "", value |-> TRUE]
    ELSE IF \/ value.type = "str" /\ value.s \in {"False", "false"}
            \/ value.type = "bool" /\ ~value.b
            \/ value.type = "num" /\ value.n = 0
         THEN [raised |-> "", value |-> FALSE]
         ELSE [raised |-> "ValueError", value |-> FALSE]

\* RegressionRhythm.change_setting: the object it leaves and the exception
\* that escapes it
regression_change_setting(r, key, value, real_time) ==
    LET number == ToNumber(value)
    IN  IF key = "inertia"
        THEN IF number.raised = "ValueError" THEN [obj |-> r, raised |-> ""]
             ELSE IF number.raised # "" THEN [obj |-> r, raised |-> number.raised]
             ELSE IF number.value > 1 \/ number.value < 0 THEN [obj |-> r, raised |-> ""]
             ELSE [obj |-> [r EXCEPT !.preferred_inertia = QInt(number.value)],
                   raised |-> ""]
        ELSE IF key = "peal_speed"
        THEN IF number.raised # "" THEN [obj |-> r, raised |-> number.raised]
             ELSE IF number.value <= 0 THEN [obj |-> r, raised |-> ""]
             ELSE LET r1 == [r EXCEPT !.peal_speed = number.value]
                      peal_speed_interval ==
                          peal_speed_to_blow_interval(number.value, r.stage)
                  IN  IF r.blow_interval = QInt(0) THEN [obj |-> r1, raised |-> ""]
                      ELSE [obj |-> [r1 EXCEPT
                                !.blow_interval = peal_speed_interval,
                                !.start_time =
                                    IF @.kind = "fin"
                                    THEN Fin(QSub(QInt(real_time),
                                                  QMul(QDiv(QSub(QInt(real_time), @.q),
                                                            r.blow_interval),
                                                       peal_speed_interval)))
                                    ELSE @],
                            raised |-> ""]
        ELSE [obj |-> r, raised |-> ""]

(***************************************************************************)
(* Bot (bot.py): the fields its callbacks and its ringing loop share, and  *)
(* the methods that change them.  The rhythm's part in a tick is the wait  *)
(* modelled above; here a wait simply returns.  The row generators of      *)
(* this source tree take no custom start row, so the opening row is        *)
(* generate_starting_row(number_of_bells, None), as _on_size_change sets   *)
(* it when the tower's state first arrives.  The field number_of_bells is  *)
(* the tower's len(_bell_state), which Bot.number_of_bells reads, and the  *)
(* field emitted holds the calls Wheatley has sent with Tower.make_call    *)
(* that the server has not yet sent back.                                  *)
(***************************************************************************)
TowerBells == 4     \* bells of the tower when the Bot starts
MaxBotRows == 3     \* largest row number rung in a touch
MaxCallbacks == 4   \* callbacks the tower makes on the Bot

\* An Optional[int] is the set of its values: {n} for n and, for None,
NONE == {}

\* None, for next_row_generator
NoGenerator == [kind |-> "none"]

\* RowGenerator.start_stroke and PlaceNotationGenerator's override of it
start_stroke(g) ==
    IF g.kind = "place_notation" THEN from_index(g.start_index)
    ELSE IF g.kind = "complib" THEN g.start_stroke
         ELSE HANDSTROKE

\* the sizes the tower is given: the one it starts with and one bell fewer
TowerSizes == {TowerBells - 1, TowerBells}

\* Bot.__init__, then the first _on_size_change
NewBot(row_generator, do_up_down_in, stop_at_rounds, call_comps) ==
    [do_up_down_in |-> do_up_down_in,
     stop_at_rounds |-> stop_at_rounds,
     call_comps |-> call_comps,
     number_of_bells |-> TowerBells,
     emitted |-> {},
     row_generator |-> row_generator,
     next_row_generator |-> NoGenerator,
     is_ringing |-> FALSE,
     is_ringing_rounds |-> FALSE,
     is_ringing_opening_row |-> TRUE,
     rounds_left_before_method |-> NONE,
     rows_left_before_rounds |-> NONE,
     should_stand |-> FALSE,
     row_number |-> 0,
     place |-> 0,
     opening_row |-> rounds(TowerBells),
     rounds |-> rounds(TowerBells),
     row |-> rounds(TowerBells),
     calls |-> <<>>]

\* Bot.stroke
BotStrokeOf(b) == from_index(b.row_number)

\* Bot._check_starting_row, for a generator without a custom start row
check_starting_row(b) == Len(b.opening_row) = b.number_of_bells

\* Bot._check_number_of_bells
check_number_of_bells(b, row_gen) ==
    IF row_gen.stage = 0 THEN FALSE
    ELSE IF b.number_of_bells < row_gen.stage THEN FALSE
         ELSE TRUE

\* Bot._make_call
make_call(b, call) == IF b.call_comps THEN [b EXCEPT !.emitted = @ \cup {call}] ELSE b

\* Bot._make_calls
RECURSIVE make_calls(_, _)
make_calls(b, call_list) ==
    IF call_list = <<>> THEN b
    ELSE make_calls(make_call(b, Head(call_list)), Tail(call_list))

\* `early_calls().get(key) or []`
EarlyCallsAt(g, key) ==
    IF key \in DOMAIN early_calls(g) THEN early_calls(g)[key] ELSE <<>>

\* Bot._on_setting_change for the two keys the Bot keeps itself
on_setting_change(b, key, value) ==
    IF key = "use_up_down_in" THEN [b EXCEPT !.do_up_down_in = value]
    ELSE IF key = "stop_at_rounds" THEN [b EXCEPT !.stop_at_rounds = value]
         ELSE b

\* Bot._on_row_gen_change
on_row_gen_change(b, row_gen) == [b EXCEPT !.next_row_generator = row_gen]

\* Tower._on_size_change or _on_global_bell_state leaving the tower with
\* new_size bells, and the Bot._on_size_change it invokes
on_size_change(b, new_size) ==
    [b EXCEPT !.number_of_bells = new_size,
              !.opening_row = rounds(new_size),
              !.rounds = rounds(new_size),
              !.next_row_generator =
                  IF @ # NoGenerator /\ ~check_number_of_bells([b EXCEPT !.number_of_bells = new_size], @)
                  THEN NoGenerator ELSE @]

\* the value _on_go gives the counter: 1 if the call lands on the generator's
\* start stroke, otherwise 0
GoRoundsLeft(b) ==
    IF BotStrokeOf(b) = start_stroke(b.row_generator) THEN {1} ELSE {0}

\* the condition under which _on_go acts
GoAccepted(b) == b.is_ringing_rounds \/ b.is_ringing_opening_row

\* the early calls _on_go finds missed, those of the keys above `left`, in
\* the order it makes them: sorted by key, reversed
RECURSIVE MissedFrom(_, _, _)
MissedFrom(g, key, left) ==
    IF key <= left THEN <<>>
    ELSE EarlyCallsAt(g, key) \o MissedFrom(g, key - 1, left)

MissedCallsSmallestFirst(g, left) ==
    LET keys == DOMAIN early_calls(g)
    IN  IF keys = {} THEN <<>>
        ELSE Reverse(MissedFrom(g, CHOOSE k \in keys : \A j \in keys : j <= k, left))

MissedCalls(g, left) ==
    LET keys == DOMAIN early_calls(g)
    IN  IF keys = {} THEN <<>>
        ELSE MissedFrom(g, CHOOSE k \in keys : \A j \in keys : j <= k, left)

\* the calls _on_go makes
GoCalls(b) ==
    IF GoAccepted(b)
    THEN MissedCalls(b.row_generator, CHOOSE n \in GoRoundsLeft(b) : TRUE)
    ELSE <<>>

\* Bot._on_go
on_go(b) ==
    IF GoAccepted(b)
    THEN make_calls([b EXCEPT !.rounds_left_before_method = GoRoundsLeft(b)], GoCalls(b))
    ELSE b

\* Bot._on_bob and Bot._on_single
on_bob(b) == [b EXCEPT !.row_generator = set_bob(@)]

on_single(b) == [b EXCEPT !.row_generator = set_single(@)]

\* Bot._on_thats_all
on_thats_all(b) == [b EXCEPT !.rows_left_before_rounds = {1}]

\* Bot._on_rounds
on_rounds(b) == [b EXCEPT !.is_ringing_opening_row = TRUE]

\* Bot._on_stand_next
on_stand_next(b) == [b EXCEPT !.should_stand = TRUE]

\* Bot._on_stop_touch
on_stop_touch(b) == [b EXCEPT !.is_ringing = FALSE]

\* Bot.generate_next_row
generate_next_row(b) ==
    IF b.is_ringing_opening_row THEN [b EXCEPT !.row = b.opening_row]
    ELSE IF b.is_ringing_rounds THEN [b EXCEPT !.row = b.rounds]
         ELSE LET g == next_row_and_calls(b.row_generator, BotStrokeOf(b))
                  row == IF Len(g.row) < Len(b.opening_row)
                         THEN g.row \o SubSeq(b.opening_row, Len(g.row) + 1, Len(b.opening_row))
                         ELSE g.row
              IN  [b EXCEPT !.row_generator = g, !.row = row,
                            !.calls = GenCalls(b.row_generator, b.row_generator.index)]

\* which branch of generate_next_row the next row comes from
RowKind(b) ==
    IF b.is_ringing_opening_row THEN "opening"
    ELSE IF b.is_ringing_rounds THEN "rounds" ELSE "method"

\* start_next_row's local has_just_rung_rounds
HasJustRungRounds(b) == b.row = b.rounds

\* start_next_row from the row indices up to the assertion: place and row
\* number, handbell-style stopping at rounds, and the early calls staged for
\* the next row
SnrBefore(b, is_first_row) ==
    LET b1 == [b EXCEPT !.place = 0, !.row_number = IF is_first_row THEN 0 ELSE @ + 1]
        b2 == IF b1.stop_at_rounds /\ HasJustRungRounds(b1) /\ ~b1.is_ringing_opening_row
              THEN [b1 EXCEPT !.should_stand = TRUE]
              ELSE b1
    IN  IF b2.rounds_left_before_method # NONE
        THEN [b2 EXCEPT !.calls = EarlyCallsAt(b2.row_generator,
                                               CHOOSE n \in b2.rounds_left_before_method : TRUE)]
        ELSE b2

\* the assertion of start_next_row, where it is evaluated
StartStrokeHolds(b, next_stroke) ==
    b.rounds_left_before_method = {0} => next_stroke = start_stroke(b.row_generator)

\* start_next_row, starting the method when the counter has reached 0
SnrStartMethod(b) ==
    IF b.rounds_left_before_method = {0}
    THEN LET b1 == [b EXCEPT !.rounds_left_before_method = NONE,
                             !.is_ringing_rounds = FALSE,
                             !.is_ringing_opening_row = FALSE]
             b2 == IF ~check_number_of_bells(b1, b1.row_generator)
                   THEN [make_call(b1, "Stand") EXCEPT !.is_ringing_rounds = TRUE]
                   ELSE b1
         IN  [b2 EXCEPT !.row_generator = reset(@)]
    ELSE b

\* a counter that is never decremented
SnrDecrementSkipped(b) == b

\* start_next_row, counting one row off the counter
SnrDecrement(b) ==
    IF b.rounds_left_before_method # NONE
    THEN [b EXCEPT !.rounds_left_before_method = {n - 1 : n \in @}]
    ELSE b

\* a test for coming round that waits for the full row even at rounds
ComesRoundAfterFullRow(b, has_just_rung_rounds) ==
    b.rows_left_before_rounds = {0}

\* start_next_row's test for coming round after That's All
ComesRound(b, has_just_rung_rounds) ==
    \/ b.rows_left_before_rounds = {0}
    \/ (has_just_rung_rounds /\ b.rows_left_before_rounds # NONE)

\* a start_next_row that stands at either stroke
SnrRestStandAnyStroke(b, has_just_rung_rounds, next_stroke) ==
    LET b1 == IF b.should_stand
              THEN [b EXCEPT !.should_stand = FALSE, !.is_ringing = FALSE]
              ELSE b
        b2 == IF ComesRound(b1, has_just_rung_rounds)
              THEN [b1 EXCEPT !.rows_left_before_rounds = NONE, !.is_ringing_rounds = TRUE]
              ELSE b1
        b3 == IF b2.rows_left_before_rounds # NONE
              THEN [b2 EXCEPT !.rows_left_before_rounds = {n - 1 : n \in @}]
              ELSE b2
    IN  IF ~b3.is_ringing THEN b3 ELSE generate_next_row(b3)

\* start_next_row after the counter's decrement: standing at a handstroke,
\* coming round, and the next row unless ringing has stopped
SnrRest(b, has_just_rung_rounds, next_stroke) ==
    LET b1 == IF next_stroke = HANDSTROKE /\ b.should_stand
              THEN [b EXCEPT !.should_stand = FALSE, !.is_ringing = FALSE]
              ELSE b
        b2 == IF ComesRound(b1, has_just_rung_rounds)
              THEN [b1 EXCEPT !.rows_left_before_rounds = NONE, !.is_ringing_rounds = TRUE]
              ELSE b1
        b3 == IF b2.rows_left_before_rounds # NONE
              THEN [b2 EXCEPT !.rows_left_before_rounds = {n - 1 : n \in @}]
              ELSE b2
    IN  IF ~b3.is_ringing THEN b3 ELSE generate_next_row(b3)

\* Bot.start_next_row; when the assertion fails the fields stay as the raise
\* leaves them
start_next_row(b, is_first_row) ==
    LET b1 == SnrBefore(b, is_first_row)
        next_stroke == from_index(b1.row_number)
    IN  IF ~StartStrokeHolds(b1, next_stroke) THEN b1
        ELSE SnrRest(SnrDecrement(SnrStartMethod(b1)), HasJustRungRounds(b1), next_stroke)

\* the assertion of the start_next_row that this call would make
StartNextRowHolds(b, is_first_row) ==
    LET b1 == SnrBefore(b, is_first_row)
    IN  StartStrokeHolds(b1, from_index(b1.row_number))

\* a Look To that leaves the stand flag and the That's All counter alone
LookToSetUpKeepingFlags(b) ==
    LET b1 == [b EXCEPT !.row_generator = IF b.next_row_generator # NoGenerator
                                          THEN b.next_row_generator ELSE @,
                        !.next_row_generator = NoGenerator]
    IN  [b1 EXCEPT !.rounds_left_before_method =
                       IF ~b1.do_up_down_in THEN NONE
                       ELSE IF start_stroke(b1.row_generator) = HANDSTROKE THEN {2} ELSE {3},
                   !.is_ringing = TRUE,
                   !.is_ringing_rounds = TRUE,
                   !.is_ringing_opening_row = TRUE]

\* a Look To that arms the up-down-in counter with 2 at either start stroke
LookToSetUpTwoRounds(b) ==
    LET b1 == [b EXCEPT !.row_generator = IF b.next_row_generator # NoGenerator
                                          THEN b.next_row_generator ELSE @,
                        !.next_row_generator = NoGenerator,
                        !.should_stand = FALSE,
                        !.rows_left_before_rounds = NONE]
    IN  [b1 EXCEPT !.rounds_left_before_method = IF ~b1.do_up_down_in THEN NONE ELSE {2},
                   !.is_ringing = TRUE,
                   !.is_ringing_rounds = TRUE,
                   !.is_ringing_opening_row = TRUE]

\* look_to_has_been_called up to its call of start_next_row
LookToSetUp(b) ==
    LET b1 == [b EXCEPT !.row_generator = IF b.next_row_generator # NoGenerator
                                          THEN b.next_row_generator ELSE @,
                        !.next_row_generator = NoGenerator,
                        !.should_stand = FALSE,
                        !.rows_left_before_rounds = NONE]
    IN  [b1 EXCEPT !.rounds_left_before_method =
                       IF ~b1.do_up_down_in THEN NONE
                       ELSE IF start_stroke(b1.row_generator) = HANDSTROKE THEN {2} ELSE {3},
                   !.is_ringing = TRUE,
                   !.is_ringing_rounds = TRUE,
                   !.is_ringing_opening_row = TRUE]

\* Bot.look_to_has_been_called
look_to_has_been_called(b) == start_next_row(LookToSetUp(b), TRUE)

\* the condition under which _on_look_to acts
LookToAccepted(b) == check_starting_row(b) /\ check_number_of_bells(b, b.row_generator)

\* Bot._on_look_to
on_look_to(b) == IF LookToAccepted(b) THEN look_to_has_been_called(b) ELSE b

\* Bot.tick up to the move to the next place
TickPlace(b) == [b EXCEPT !.place = @ + 1]

TickCallsAtSecondPlace(b) == IF b.place = 1 THEN b.calls ELSE <<>>

\* the calls Bot.tick makes: those staged for the row, at its first place
TickCalls(b) == IF b.place = 0 THEN b.calls ELSE <<>>

\* Bot.tick
tick(b) ==
    LET b1 == TickPlace(make_calls(b, TickCalls(b)))
    IN  IF b1.place >= b1.number_of_bells THEN start_next_row(b1, FALSE) ELSE b1

(***************************************************************************)
(* The parts of the state a specification leaves alone                     *)
(***************************************************************************)
PmIdle ==
    /\ pm_stage = 1 /\ pm_row = <<1>> /\ pm_places = <<>>
    /\ pm_ret = <<>> /\ pm_arg = <<>> /\ pm_called = FALSE

GenIdle ==
    /\ rg = PlainHuntGenerator(1) /\ rg_config = rg /\ fresh = rg
    /\ gen_pn = <<>> /\ gen_hist = <<>> /\ gen_was_reset = FALSE
    /\ gen_single_ever = FALSE /\ bob_span = <<>> /\ gen_alternating = TRUE

NewRing ==
    [pc |-> "await", hpc |-> "idle", touches |-> 0, events |-> 0, is_ringing |-> FALSE,
     row |-> rounds(NumBells), row_number |-> 0, place |-> 0, call_time |-> 0,
     bell |-> 1, stroke |-> HANDSTROKE, user_controlled |-> FALSE,
     user |-> NoUser, delay_for_user |-> 0]

NoReturn ==
    [valid |-> FALSE, bell |-> 1, stroke |-> HANDSTROKE, user_controlled |-> FALSE,
     requested |-> FALSE, heard |-> FALSE, heard_at_start |-> FALSE, polled |-> FALSE,
     delay_added |-> 0, credited |-> FALSE, corrected |-> FALSE]

NewObs ==
    [rings_row |-> {}, credit |-> {}, corrected |-> {}, corrected_prev |-> {},
     requested |-> FALSE, interrupted |-> FALSE, overtaken |-> FALSE,
     after_req |-> 0, polled |-> FALSE,
     heard_at_start |-> FALSE,
     shifted |-> 0, ret |-> NoReturn]

WfuIdle ==
    /\ assigned = [b \in Bells |-> Wheatley]
    /\ wfu = NewWaitForUser
    /\ ring = NewRing
    /\ obs = NewObs

NewThreads ==
    [main |-> "await", handler |-> "idle", callbacks |-> 0, touches |-> 0,
     check_failed |-> FALSE, go_value |-> NONE,
     has_just_rung_rounds |-> FALSE, next_stroke |-> HANDSTROKE,
     lock |-> "free", size_handler |-> "idle", look_to_handler |-> "idle",
     arrived |-> NoGenerator, overlap |-> FALSE,
     cleared |-> [row_gen |-> NoGenerator, number_of_bells |-> 0],
     tick_bell |-> 1, tick_user |-> FALSE, look_to_in_tick |-> FALSE,
     first |-> [n |-> 0, row |-> 0, place |-> 0, bell |-> 1]]

NewTouch ==
    [up_down_in |-> FALSE, rows |-> <<>>, gos |-> {}, stands |-> {}, pending |-> FALSE]

BotIdle ==
    /\ bot = NewBot(PlainHuntGenerator(1), FALSE, FALSE, FALSE)
    /\ threads = NewThreads
    /\ touch = NewTouch

NewRhist ==
    [now |-> 0, touches |-> 0, events |-> 0, settings |-> 0, added |-> 0, row_number |-> 0,
     ringing |-> FALSE,
     last |-> [op |-> "", key |-> "", value |-> JNull, bell |-> 1, stroke |-> HANDSTROKE,
               expected |-> FALSE, index |-> <<0, 0>>, raised |-> ""],
     observed |-> 0]

\* no call of calculate_regression yet
NewReg == [data_set |-> <<>>, called |-> FALSE, ret |-> [singular |-> FALSE, start |-> QInt(0), interval |-> QInt(0)]]

RhyIdle ==
    /\ rhy = RegressionRhythm(QInt(0), 210, QInt(0), 2, MaxDataset)
    /\ rhist = NewRhist
    /\ reg = NewReg

\* RingingRoomTower as the Bot uses it: _bell_state as set at hand and
\* _assigned_users, Wheatley standing for a bell that is the Bot's to ring
Tower(assigned_users) ==
    [bell_state |-> [b \in 1..TowerBells |-> HANDSTROKE],
     assigned_users |-> assigned_users]

NewTower == Tower([b \in 1..TowerBells |-> Wheatley])

\* history: no tick yet
NoTick ==
    [n |-> 0, row |-> 0, place |-> 0, bell |-> 1, stroke |-> HANDSTROKE,
     user_controlled |-> FALSE, expected |-> {}, requests |-> 0]

NewRingLog ==
    [expected |-> {}, waited |-> NoTick,
     said |-> <<>>, rows |-> <<>>, go |-> [n |-> 0, from |-> 0]]

TwrIdle ==
    /\ tower = NewTower
    /\ rlog = NewRingLog

(***************************************************************************)
(* Specification of permute on its own: any stage, row and place list      *)
(***************************************************************************)
\* a row holds the bells of the stage, or those and one cover bell
PmInputs ==
    /\ pm_stage \in 1..MaxStage
    /\ \E n \in {pm_stage, pm_stage + 1} : pm_row \in Rows(n)
    /\ pm_places \in SeqsUpTo(1..(pm_stage + 1), MaxPlaces)

InitPermute ==
    /\ PmInputs
    /\ pm_ret = <<>> /\ pm_arg = <<>> /\ pm_called = FALSE
    /\ GenIdle /\ WfuIdle /\ BotIdle /\ RhyIdle /\ TwrIdle

\* permute(row, places) is called on the caller's row
Permute ==
    /\ ~pm_called
    /\ LET call == PermuteCall(pm_stage, pm_row, pm_places)
       IN  /\ pm_row' = call.row
           /\ pm_ret' = call.ret
    /\ pm_arg' = pm_row
    /\ pm_called' = TRUE
    /\ UNCHANGED <<pm_stage, pm_places>>
    /\ UNCHANGED <<genVars, wfuVars, botVars, rhyVars, twrVars>>

\* next_row_and_calls stores the result (self._row = ...), the row of its next call
PermuteAgain ==
    /\ pm_called
    /\ pm_row' = pm_ret
    /\ pm_ret' = <<>> /\ pm_arg' = <<>>
    /\ pm_called' = FALSE
    /\ UNCHANGED <<pm_stage, pm_places>>
    /\ UNCHANGED <<genVars, wfuVars, botVars, rhyVars, twrVars>>

NextPermute == Permute \/ PermuteAgain

SpecPermute == InitPermute /\ [][NextPermute]_vars

(***************************************************************************)
(* C1: for every place list and every row that is a permutation of 1..N    *)
(* (N >= stage), permute returns a permutation of 1..N of the same length  *)
(* and leaves the row it was given unmodified.                             *)
(***************************************************************************)
PermuteIsBijection ==
    pm_called => /\ Len(pm_ret) = Len(pm_arg)
                 /\ IsRow(pm_ret)
                 /\ pm_row = pm_arg

\* a call that swapped at least one pair of a row with a cover bell
PermuteSwappedWitness ==
    /\ pm_called
    /\ Len(pm_arg) > pm_stage
    /\ pm_ret # pm_arg
    /\ Len(pm_places) > 0

(***************************************************************************)
(* Specification of a row generator driven by its caller: next_row on any  *)
(* stroke, set_bob, set_single and reset in any order                      *)
(***************************************************************************)
\* Plain Bob Minimus with the default calls, as in test_PlaceNotationGenerator
PlainBobMinimus ==
    PlaceNotationGenerator(4, <<"&", "x", "1", "x", "1", ",", "2">>, DefaultBob, DefaultSingle, 0)

\* a method of six changes with a two-change Bob in the lead, a Bob at the
\* lead end and Singles elsewhere
CustomCalls(start_index) ==
    PlaceNotationGenerator(4, <<"-", "1", "4", "-", "1", "4", "-", "1", "2">>,
                           << <<0, <<"1", "4">> >>, <<3, <<"3", "4", ".", "1", "4">> >> >>,
                           << <<2, <<"1", "2", "3", "4">> >>, <<-1, <<"1", "2">> >> >>,
                           start_index)

GenConfigs ==
    {PlainBobMinimus, grandsire(5), CustomCalls(0), CustomCalls(1)}
        \cup {PlainHuntGenerator(n) : n \in 1..MaxStage}

InitGen ==
    /\ rg \in GenConfigs
    /\ rg_config = rg
    /\ fresh = rg
    /\ gen_pn = <<>> /\ gen_hist = <<>> /\ gen_was_reset = FALSE
    /\ gen_single_ever = FALSE /\ bob_span = <<>> /\ gen_alternating = TRUE
    /\ PmIdle /\ WfuIdle /\ BotIdle /\ RhyIdle /\ TwrIdle

\* a pending Bob meets its override at the row about to be generated
BobStarts ==
    /\ rg.kind = "place_notation"
    /\ rg.has_bob
    /\ HasCall(rg.bobs_pn, LeadIndex(rg, rg.index))

CountOf(hist, what) == Cardinality({k \in 1..Len(hist) : hist[k] \in what})

\* rg.next_row(stroke)
NextRow ==
    /\ CountOf(gen_hist, {"row"}) < MaxRows
    /\ \E stroke \in BOOLEAN :
        /\ rg' = next_row_and_calls(rg, stroke)
        /\ gen_pn' = GenRow(rg, rg.row, stroke, rg.index).pn
        /\ fresh' = next_row_and_calls(fresh, stroke)
        /\ gen_alternating' = (gen_alternating /\ stroke = from_index(rg.index))
    /\ gen_hist' = Append(gen_hist, "row")
    /\ bob_span' = IF BobStarts THEN Tail(rg.bobs_pn[LeadIndex(rg, rg.index)])
                   ELSE IF bob_span # <<>> THEN Tail(bob_span) ELSE <<>>
    /\ UNCHANGED <<rg_config, gen_was_reset, gen_single_ever>>
    /\ UNCHANGED <<pmVars, wfuVars, botVars, rhyVars, twrVars>>

\* rg.set_bob()
SetBob ==
    /\ CountOf(gen_hist, {"bob", "single"}) < MaxCalls
    /\ rg' = set_bob(rg)
    /\ fresh' = set_bob(fresh)
    /\ gen_hist' = Append(gen_hist, "bob")
    /\ UNCHANGED <<rg_config, gen_pn, gen_was_reset, gen_single_ever, bob_span, gen_alternating>>
    /\ UNCHANGED <<pmVars, wfuVars, botVars, rhyVars, twrVars>>

\* rg.set_single()
SetSingle ==
    /\ CountOf(gen_hist, {"bob", "single"}) < MaxCalls
    /\ rg' = set_single(rg)
    /\ fresh' = set_single(fresh)
    /\ gen_hist' = Append(gen_hist, "single")
    /\ gen_single_ever' = TRUE
    /\ UNCHANGED <<rg_config, gen_pn, gen_was_reset, bob_span, gen_alternating>>
    /\ UNCHANGED <<pmVars, wfuVars, botVars, rhyVars, twrVars>>

\* rg.reset()
Reset ==
    /\ gen_hist # <<>>
    /\ rg' = reset(rg)
    /\ fresh' = rg_config
    /\ gen_hist' = <<>>
    /\ gen_was_reset' = TRUE
    /\ bob_span' = <<>>
    /\ gen_alternating' = TRUE
    /\ UNCHANGED <<rg_config, gen_pn, gen_single_ever>>
    /\ UNCHANGED <<pmVars, wfuVars, botVars, rhyVars, twrVars>>

NextGen == NextRow \/ SetBob \/ SetSingle \/ Reset

SpecGen == InitGen /\ [][NextGen]_vars

(***************************************************************************)
(* C10: after any sequence of next_row, set_bob and set_single calls,      *)
(* reset() makes the generator emit, for the same strokes and calls, the   *)
(* same rows as a freshly constructed generator of the same configuration. *)
(***************************************************************************)
ResetMatchesFresh == rg.row = fresh.row

(***************************************************************************)
(* C9: in PlaceNotationGenerator a pending Bob is applied at the first     *)
(* later position whose lead index has a Bob override, replaces the plain  *)
(* notation for exactly the length of the override's sequence and is then  *)
(* cleared, so that later leads are plain unless Bob is called again; in   *)
(* Plain Bob Minimus a Bob set after 6 rows makes the 8th row rounds       *)
(* instead of 1342.                                                        *)
(***************************************************************************)
RowStep == gen_hist' = Append(gen_hist, "row") /\ rg.kind = "place_notation"

SixRows == <<"row", "row", "row", "row", "row", "row">>

\* the example of test_plain_bob_minimus_bob and its plain counterpart
BobExample ==
    rg_config = PlainBobMinimus =>
        /\ gen_hist = SixRows \o <<"bob", "row", "row">> => rg.row = <<1, 2, 3, 4>>
        /\ gen_hist = SixRows \o <<"row", "row">> => rg.row = <<1, 3, 4, 2>>

\* a Bob stays pending over the rows whose lead index has no Bob override
BobStaysPending ==
    (RowStep /\ rg.has_bob /\ ~BobStarts) => rg'.has_bob

\* at an index with a Bob override the pending Bob is used and cleared
BobUsedAndCleared ==
    (RowStep /\ BobStarts) =>
        /\ gen_pn' = Head(rg.bobs_pn[LeadIndex(rg, rg.index)])
        /\ ~rg'.has_bob

\* the rows after it use the rest of the Bob's sequence
BobSpanUsed ==
    (RowStep /\ ~BobStarts /\ bob_span # <<>>) => gen_pn' = Head(bob_span)

\* a row outside every Bob is plain (on a generator never given a Single)
PlainOutsideBob ==
    (RowStep /\ ~BobStarts /\ bob_span = <<>> /\ ~gen_single_ever) =>
        gen_pn' = rg.method_pn[LeadIndex(rg, rg.index) + 1]

PendingBobAppliedOnce ==
    /\ []BobExample
    /\ [][BobStaysPending /\ BobUsedAndCleared /\ BobSpanUsed /\ PlainOutsideBob]_vars

\* a pending Single meets its override at the row about to be generated
SingleStarts ==
    /\ rg.kind = "place_notation"
    /\ rg.has_single
    /\ HasCall(rg.singles_pn, LeadIndex(rg, rg.index))

\* the place list of the plain lead at the row about to be generated
PlainLeadPlaces == rg.method_pn[LeadIndex(rg, rg.index) + 1]

\* Bob before Single before `otherwise`
ChosenByPriority(otherwise) ==
    IF BobStarts THEN Head(rg.bobs_pn[LeadIndex(rg, rg.index)])
    ELSE IF SingleStarts THEN Head(rg.singles_pn[LeadIndex(rg, rg.index)])
         ELSE otherwise

(***************************************************************************)
(* C11 as stated: at any position of PlaceNotationGenerator a pending Bob  *)
(* with an override at the lead index is used, also when a Single is       *)
(* pending with an override there; otherwise a pending Single with an      *)
(* override there; otherwise the plain lead's place list for that index.   *)
(***************************************************************************)
CallPriorityThenPlain ==
    [][RowStep => gen_pn' = ChosenByPriority(PlainLeadPlaces)]_vars

(***************************************************************************)
(* C11 amended: Bob before Single as above; when neither starts at this    *)
(* position, the next place list left over from the override sequence of   *)
(* the call last started is used if there is one, and the plain lead's     *)
(* place list for the index only when none is left.                        *)
(***************************************************************************)
CallPriorityThenSpan ==
    [][RowStep => gen_pn' = ChosenByPriority(IF rg.generating_call_pn # <<>>
                                              THEN Head(rg.generating_call_pn)
                                              ELSE PlainLeadPlaces)]_vars

\* Plain Bob Minimus, whose Bob and Single overrides are both at the lead end:
\* both were called in the first lead and the lead end used the Bob's 14
CallPriorityWitness ==
    /\ rg_config = PlainBobMinimus
    /\ CountOf(gen_hist, {"row"}) = 8 /\ rg.index = 8
    /\ gen_hist[8] # "row"
    /\ CountOf(gen_hist, {"bob"}) = 1 /\ CountOf(gen_hist, {"single"}) = 1
    /\ gen_hist[Len(gen_hist)] = "row"
    /\ gen_pn = <<1, 4>>
    /\ rg.row = <<1, 2, 3, 4>>

\* next_row has been called k times, with strokes alternating from Hand and no
\* call, on a generator as constructed
RowsFromRounds(k) ==
    /\ ~gen_was_reset
    /\ gen_alternating
    /\ gen_hist = [j \in 1..k |-> "row"]

(***************************************************************************)
(* C12: PlaceNotationGenerator(4, "&x1x1,2") started from rounds, with     *)
(* strokes alternating from Hand and no calls, yields 2143, 2413, 4231,    *)
(* 4321, 3412, 3142, 1324, 1342 as its first 8 rows.                       *)
(***************************************************************************)
PlainBobMinimusLead ==
    << <<2, 1, 4, 3>>, <<2, 4, 1, 3>>, <<4, 2, 3, 1>>, <<4, 3, 2, 1>>,
       <<3, 4, 1, 2>>, <<3, 1, 4, 2>>, <<1, 3, 2, 4>>, <<1, 3, 4, 2>> >>

PlainBobMinimusFirstLead ==
    \A k \in 1..8 :
        (rg_config = PlainBobMinimus /\ RowsFromRounds(k)) => rg.row = PlainBobMinimusLead[k]

PlainBobMinimusFirstLeadWitness ==
    /\ rg_config = PlainBobMinimus /\ RowsFromRounds(8)
    /\ rg.row = <<1, 3, 4, 2>>

\* the rows of test_minimus
PlainHuntMinimus ==
    << <<2, 1, 4, 3>>, <<2, 4, 1, 3>>, <<4, 2, 3, 1>>, <<4, 3, 2, 1>>,
       <<3, 4, 1, 2>>, <<3, 1, 4, 2>>, <<1, 3, 2, 4>>, <<1, 2, 3, 4>> >>

\* on the stages in `stages`, rounds comes back at row 2n and not before
HuntReturnsAt2n(stages) ==
    \A k \in 1..(2 * MaxStage) :
        (rg.kind = "plain_hunt" /\ rg.stage \in stages /\ RowsFromRounds(k) /\ k <= 2 * rg.stage) =>
            (rg.row = rounds(rg.stage) <=> k = 2 * rg.stage)

HuntMinimusRows ==
    \A k \in 1..8 :
        (rg.kind = "plain_hunt" /\ rg.stage = 4 /\ RowsFromRounds(k)) => rg.row = PlainHuntMinimus[k]

(***************************************************************************)
(* C13 as stated: PlainHuntGenerator on stage n, started from rounds with  *)
(* strokes alternating from Hand, first returns to rounds after exactly 2n *)
(* rows and at no earlier row, on every stage n; on stage 4 the 8 rows are *)
(* 2143, 2413, 4231, 4321, 3412, 3142, 1324, 1234.                         *)
(***************************************************************************)
PlainHuntCourse == HuntReturnsAt2n(1..MaxStage) /\ HuntMinimusRows

(***************************************************************************)
(* C13 amended: the same on every stage n >= 3; on stage 2 rounds comes    *)
(* back after 3 rows (21, 21, 12) and on stage 1 every row is rounds.      *)
(***************************************************************************)
PlainHuntCourseFromSingles ==
    /\ HuntReturnsAt2n(3..MaxStage)
    /\ HuntMinimusRows
    /\ \A k \in 1..3 :
          (rg.kind = "plain_hunt" /\ rg.stage = 2 /\ RowsFromRounds(k)) =>
              (rg.row = rounds(2) <=> k = 3)
    /\ \A k \in 1..2 :
          (rg.kind = "plain_hunt" /\ rg.stage = 1 /\ RowsFromRounds(k)) => rg.row = rounds(1)

PlainHuntCourseWitness ==
    /\ rg.kind = "plain_hunt" /\ rg.stage = 3
    /\ RowsFromRounds(6)
    /\ rg.row = rounds(3)

\* the Bobs and the Singles each configuration was constructed with: the
\* lead-index a call is defined at and the first change of its notation
GrandsireDoubles == grandsire(5)

CustomConfigs == {CustomCalls(0), CustomCalls(1)}

BobsDefined ==
    IF rg_config = GrandsireDoubles THEN {<<-1, <<3>> >>}
    ELSE IF rg_config \in CustomConfigs THEN {<<0, <<1, 4>> >>, <<3, <<3, 4>> >>}
         ELSE {<<0, <<1, 4>> >>}

SinglesDefined ==
    IF rg_config = GrandsireDoubles THEN {<<-1, <<3>> >>}
    ELSE IF rg_config \in CustomConfigs
         THEN {<<2, <<1, 2, 3, 4>> >>, <<-1, <<1, 2>> >>}
         ELSE {<<0, <<1, 2, 3, 4>> >>}

\* the lead position of the row about to be generated, counted from the
\* rows generated since construction or reset
LeadPositionNow == (CountOf(gen_hist, {"row"}) + rg_config.start_index) % rg_config.lead_len

\* the calls of a set defined at an index that denotes the position now
DefinedHere(defined) == {d \in defined : (d[1] - 1) % rg_config.lead_len = LeadPositionNow}

\* a row step follows the positions the call indices denote
CallsAtTheirPositions ==
    RowStep =>
        LET bobs == DefinedHere(BobsDefined)
            singles == DefinedHere(SinglesDefined)
            bob_now == rg.has_bob /\ bobs # {}
            single_now == rg.has_single /\ singles # {} /\ ~bob_now
        IN  /\ bob_now => (~rg'.has_bob /\ \E d \in bobs : gen_pn' = d[2])
            /\ single_now => (~rg'.has_single /\ \E d \in singles : gen_pn' = d[2])
            /\ ~bob_now /\ ~single_now =>
                  /\ rg'.has_bob = rg.has_bob /\ rg'.has_single = rg.has_single
                  /\ rg.generating_call_pn = <<>> =>
                        gen_pn' = rg_config.method_pn[LeadPositionNow + 1]

\* index 0 is filed under the last change of the lead, and an index and the
\* index one lead later are filed under the same position (a property of
\* the configuration, looked at when the generator has been constructed)
IndicesModuloLead ==
    (rg_config.kind = "place_notation" /\ gen_hist = <<>> /\ ~gen_was_reset) =>
        LET L == rg_config.lead_len
            filed(i) == DOMAIN parse_call_dict(<< <<i, <<"1">> >> >>, L)
        IN  /\ filed(0) = {L - 1}
            /\ \A i \in (0 - L)..L : filed(i) = filed(i + L) /\ filed(i) = {(i - 1) % L}

(***************************************************************************)
(* C28: a call defined at lead-index i takes effect, once it is pending,   *)
(* at the row whose lead position is (i - 1) mod lead_length and at no     *)
(* other; index 0 is the last change of the lead and indices congruent     *)
(* modulo the lead length are the same position; the k-th row generated    *)
(* by a generator with start_index s is at lead position                   *)
(* (k + s) mod lead_length, whose plain notation it uses when no call is   *)
(* in effect.                                                              *)
(***************************************************************************)
CallIndexIsLeadPosition == []IndicesModuloLead /\ [][CallsAtTheirPositions]_vars

\* a Single defined at index -1 of a six-change lead has taken effect at
\* the row of index 3 of a generator with start_index 1, at position 4
CallIndexWitness ==
    /\ rg_config = CustomCalls(1)
    /\ ~gen_was_reset
    /\ rg.index = 4
    /\ gen_pn = <<1, 2>>

(***************************************************************************)
(* Specification of WaitForUserRhythm as Bot drives it: the ringing loop   *)
(* (Bot.main_loop, Bot.tick) on the main thread, the tower's callbacks     *)
(* (Look To, stop touch, bell rings, settings) on the handler thread       *)
(***************************************************************************)
\* who rings which bell; the first bell a human rings is rung by "a"
Assignments ==
    {f \in [Bells -> Users \cup {Wheatley}] :
        \A b \in Bells : f[b] = "b" => \E c \in 1..(b - 1) : f[c] = "a"}

\* the rows the bot is given to ring
RowsRung == {rounds(NumBells), Reverse(rounds(NumBells))}

InitWait ==
    /\ assigned \in Assignments
    /\ wfu = NewWaitForUser
    /\ ring = NewRing
    /\ obs = NewObs
    /\ PmIdle /\ GenIdle /\ BotIdle /\ RhyIdle /\ TwrIdle

\* the main thread is inside wait_for_bell_time for a human bell
InHumanWait ==
    ring.pc \in {"pull_off", "asleep", "poll", "poll_sleep"} /\ ring.user_controlled

\* Bot.stroke, as the rings of a row are counted: row 0 once Look To is in
BotStroke ==
    IF ring.hpc = "look_to_sleep" THEN HANDSTROKE ELSE from_index(ring.row_number)

\* what the wait that is returning did; requested says that the loop was left
\* on the flag, or that the flag was up, a Look To or stop touch came in during
\* the wait, or the touch's Look To came in while the ringing loop was ringing
Returned(by_flag, delay_for_user) ==
    [valid |-> TRUE, bell |-> ring.bell, stroke |-> ring.stroke,
     user_controlled |-> ring.user_controlled,
     requested |-> \/ by_flag \/ wfu.should_return_to_mainloop
                   \/ obs.interrupted \/ obs.overtaken,
     heard |-> <<ring.bell, ring.stroke>> \in obs.rings_row,
     heard_at_start |-> obs.heard_at_start,
     polled |-> delay_for_user > 0, delay_added |-> delay_for_user,
     credited |-> ring.bell \in obs.credit,
     corrected |-> ring.bell \in obs.corrected_prev]

\* Bot._on_look_to up to the sleep of initialise_line
LookTo ==
    /\ ring.hpc = "idle"
    /\ ring.touches < MaxTouches
    /\ ring.events < MaxEvents
    /\ \E call_time \in Times :
        ring' = [ring EXCEPT !.hpc = "look_to_sleep", !.call_time = call_time,
                             !.touches = @ + 1, !.events = @ + 1]
    /\ wfu' = InitialiseLineClear(return_to_mainloop(wfu))
    /\ obs' = [obs EXCEPT !.requested = @ \/ InHumanWait, !.interrupted = TRUE,
                          !.overtaken = ring.pc # "await" \/ ring.is_ringing,
                          !.rings_row = {},
                          !.credit = {}, !.corrected = {}, !.corrected_prev = {}]
    /\ UNCHANGED <<assigned, pmVars, genVars, botVars, rhyVars, twrVars>>

\* Bot.look_to_has_been_called from the end of that sleep on
LookToWake ==
    /\ ring.hpc = "look_to_sleep"
    /\ \E opening_row \in RowsRung :
        /\ ring' = [ring EXCEPT !.hpc = "idle", !.is_ringing = TRUE, !.row = opening_row,
                                !.row_number = 0, !.place = 0]
        /\ wfu' = ExpectRow(InitialiseLineInner(wfu, user_assigned_bell(1),
                                                ring.call_time + LOOK_TO_DURATION),
                            opening_row, 0, 0)
    /\ obs' = [obs EXCEPT !.shifted = ring.call_time + LOOK_TO_DURATION - wfu.delay,
                          !.interrupted = TRUE]
    /\ UNCHANGED <<assigned, pmVars, genVars, botVars, rhyVars, twrVars>>

\* Bot._on_stop_touch
StopTouch ==
    /\ ring.is_ringing
    /\ ring.events < MaxEvents
    /\ ring' = [ring EXCEPT !.is_ringing = FALSE, !.events = @ + 1]
    /\ wfu' = return_to_mainloop(wfu)
    /\ obs' = [obs EXCEPT !.requested = @ \/ InHumanWait, !.interrupted = TRUE]
    /\ UNCHANGED <<assigned, pmVars, genVars, botVars, rhyVars, twrVars>>

\* Bot._on_bell_ring, with the stroke the bell rang at
OnBellRing ==
    /\ ring.is_ringing
    /\ ring.events < MaxEvents
    /\ ring' = [ring EXCEPT !.events = @ + 1]
    /\ \E bell \in Bells, stroke \in BOOLEAN, real_time \in Times :
        /\ user_assigned_bell(bell)
        /\ wfu' = on_bell_ring(wfu, bell, stroke, real_time)
        /\ obs' = [obs EXCEPT
                !.shifted = real_time - wfu.delay,
                !.rings_row = IF stroke = BotStroke
                              THEN (@ \cup {<<bell, stroke>>}) \ {<<bell, opposite(stroke)>>}
                              ELSE @ \cup {<<bell, stroke>>},
                !.corrected = IF stroke # BotStroke THEN @ \ {bell}
                              ELSE IF <<bell, opposite(stroke)>> \in obs.rings_row
                                   THEN @ \cup {bell} ELSE @]
    /\ UNCHANGED <<assigned, pmVars, genVars, botVars, rhyVars, twrVars>>

\* a change of setting sent by the server
ChangeSetting ==
    /\ ring.events < MaxEvents
    /\ ring' = [ring EXCEPT !.events = @ + 1]
    /\ \E real_time \in Times :
        /\ wfu' = change_setting(wfu, real_time)
        /\ obs' = [obs EXCEPT !.shifted = real_time - wfu.delay]
    /\ UNCHANGED <<assigned, pmVars, genVars, botVars, rhyVars, twrVars>>

\* Bot.main_loop: the loop that waits for Look To
AwaitLookTo ==
    /\ ring.pc = "await"
    /\ ring.is_ringing
    /\ ring' = [ring EXCEPT !.pc = "tick"]
    /\ UNCHANGED <<assigned, wfu, obs, pmVars, genVars, botVars, rhyVars, twrVars>>

\* Bot.tick up to the inner rhythm's wait
Tick ==
    /\ ring.pc = "tick"
    /\ LET bell == ring.row[ring.place + 1]
           stroke == from_index(ring.row_number)
       IN  /\ \E current_time \in Times :
                /\ wfu' = WaitEnter(wfu, current_time, stroke)
                /\ obs' = [obs EXCEPT
                        !.shifted = current_time - wfu.delay,
                        !.requested = FALSE, !.after_req = 0, !.polled = FALSE,
                        !.interrupted = ring.hpc # "idle",
                        !.heard_at_start = <<bell, stroke>> \in obs.rings_row]
           /\ ring' = [ring EXCEPT
                    !.bell = bell, !.stroke = stroke,
                    !.user_controlled = user_assigned_bell(bell),
                    !.delay_for_user = 0,
                    !.pc = IF user_assigned_bell(bell) /\ wfu.inner.start_inf
                           THEN "pull_off" ELSE "asleep"]
    /\ UNCHANGED <<assigned, pmVars, genVars, botVars, rhyVars, twrVars>>

\* RegressionRhythm.wait_for_bell_time: a turn of the loop that waits for the pull off
PullOffPoll ==
    /\ ring.pc = "pull_off"
    /\ wfu.inner.start_inf
    /\ obs.after_req < MaxPolls
    /\ obs' = [obs EXCEPT !.after_req = IF obs.requested THEN @ + 1 ELSE @]
    /\ UNCHANGED <<assigned, wfu, ring, pmVars, genVars, botVars, rhyVars, twrVars>>

\* WaitForUserRhythm.wait_for_bell_time from the return of the inner wait to its loop
UserWaitStart(w) ==
    LET user == w.bells_to_user[ring.bell]
    IN  IF ~ring.user_controlled
        THEN /\ wfu' = WaitLeave(w, 0)
             /\ ring' = [ring EXCEPT !.pc = "ticked"]
             /\ obs' = [obs EXCEPT !.ret = Returned(FALSE, 0)]
        ELSE IF user = NoUser
        THEN /\ wfu' = w
             /\ ring' = [ring EXCEPT !.pc = "crashed"]
             /\ obs' = obs
        ELSE /\ wfu' = [w EXCEPT !.wait_user_count[user] = @ + 1]
             /\ ring' = [ring EXCEPT !.pc = "poll", !.user = user]
             /\ obs' = obs

\* RegressionRhythm.wait_for_bell_time: the pull off has been seen
PullOffDone ==
    /\ ring.pc = "pull_off"
    /\ ~wfu.inner.start_inf
    /\ UserWaitStart(wfu)
    /\ UNCHANGED <<assigned, pmVars, genVars, botVars, rhyVars, twrVars>>

\* RegressionRhythm.wait_for_bell_time: the end of its timed sleep
InnerWake ==
    /\ ring.pc = "asleep"
    /\ UserWaitStart([wfu EXCEPT !.inner.should_return = FALSE])
    /\ UNCHANGED <<assigned, pmVars, genVars, botVars, rhyVars, twrVars>>

\* WaitForUserRhythm.wait_for_bell_time: the test of its loop
PollCheck ==
    /\ ring.pc = "poll"
    /\ IF StillWaiting(wfu, ring.user, ring.stroke)
       THEN /\ ring' = [ring EXCEPT !.pc = "poll_sleep"]
            /\ UNCHANGED <<wfu, obs>>
       ELSE /\ ring' = [ring EXCEPT !.pc = "ticked"]
            /\ wfu' = WaitLeave(wfu, ring.delay_for_user)
            /\ obs' = [obs EXCEPT !.ret = Returned(FALSE, ring.delay_for_user)]
    /\ UNCHANGED <<assigned, pmVars, genVars, botVars, rhyVars, twrVars>>

\* WaitForUserRhythm.wait_for_bell_time: the end of a sleep of its loop
PollWake ==
    /\ ring.pc = "poll_sleep"
    /\ wfu.delay + ring.delay_for_user < MaxDelay
    /\ IF wfu.should_return_to_mainloop
       THEN /\ ring' = [ring EXCEPT !.pc = "ticked", !.delay_for_user = @ + 1]
            /\ wfu' = WaitLeave(wfu, ring.delay_for_user + 1)
            /\ obs' = [obs EXCEPT !.ret = Returned(TRUE, ring.delay_for_user + 1),
                                  !.after_req = IF obs.requested THEN @ + 1 ELSE @]
       ELSE /\ ring' = [ring EXCEPT !.pc = "poll", !.delay_for_user = @ + 1]
            /\ wfu' = wfu
            /\ obs' = [obs EXCEPT !.after_req = IF obs.requested THEN @ + 1 ELSE @]
    /\ UNCHANGED <<assigned, pmVars, genVars, botVars, rhyVars, twrVars>>

\* Bot.tick after the wait, start_next_row included, and the test of the loop
\* of Bot.main_loop that called it
AfterWait ==
    /\ ring.pc = "ticked"
    /\ IF ring.place + 1 < NumBells
       THEN /\ ring' = [ring EXCEPT !.place = @ + 1,
                                    !.pc = IF ring.is_ringing THEN "tick" ELSE "await"]
            /\ obs' = [obs EXCEPT !.ret = NoReturn]
            /\ wfu' = wfu
       ELSE /\ ring.row_number < MaxRowNumber
            /\ IF ~ring.is_ringing
               THEN /\ ring' = [ring EXCEPT !.place = 0, !.row_number = @ + 1,
                                            !.pc = "await"]
                    /\ obs' = [obs EXCEPT !.ret = NoReturn]
                    /\ wfu' = wfu
               ELSE /\ \E next_row \in RowsRung :
                        /\ ring' = [ring EXCEPT !.place = 0, !.row_number = @ + 1,
                                                !.row = next_row, !.pc = "tick"]
                        /\ wfu' = ExpectRow(wfu, next_row, ring.row_number + 1, 0)
                    /\ LET early == {p \in obs.rings_row :
                                        p[2] = from_index(ring.row_number + 1)}
                       IN  obs' = [obs EXCEPT !.ret = NoReturn,
                                              !.rings_row = early,
                                              !.credit = {p[1] : p \in early},
                                              !.corrected_prev = obs.corrected,
                                              !.corrected = {}]
    /\ UNCHANGED <<assigned, pmVars, genVars, botVars, rhyVars, twrVars>>

NextWait ==
    \/ LookTo \/ LookToWake \/ StopTouch \/ OnBellRing \/ ChangeSetting
    \/ AwaitLookTo \/ Tick \/ PullOffPoll \/ PullOffDone \/ InnerWake
    \/ PollCheck \/ PollWake \/ AfterWait

SpecWait == InitWait /\ [][NextWait]_vars

(***************************************************************************)
(* Claims about WaitForUserRhythm, checked under SpecWait                  *)
(***************************************************************************)
\* C4: wait_for_bell_time for a human bell returns only once a ring of that
\* bell at the expected stroke has been received for the row (early rings that
\* still stand included) or a return to the mainloop has been requested; the
\* ring of another bell does not release it
WaitReleasedByOwnBell ==
    obs.ret.valid /\ obs.ret.user_controlled => obs.ret.requested \/ obs.ret.heard

\* C5: once a return to the mainloop is requested while the ringing loop is
\* inside wait_for_bell_time for a human bell, the wait for the pull off
\* included, the wait is left after at most one more poll
ReturnsSoonAfterRequest ==
    InHumanWait /\ obs.requested => obs.after_req <= 1

\* C6: every bell that rang early onto the stroke of the row now being rung is
\* waited for without a poll and without adding delay (no Look To or stop touch
\* coming in between)
EarlyRingsCredited ==
    obs.ret.valid /\ obs.ret.user_controlled /\ obs.ret.credited /\ ~obs.ret.requested
        => ~obs.ret.polled /\ obs.ret.delay_added = 0

\* C7: a bell that rang early in the previous row and then rang back onto that
\* row's stroke is waited for in this row until it rings at this row's stroke
\* (or a return to the mainloop is requested)
CorrectedBellWaits ==
    obs.ret.valid /\ obs.ret.user_controlled /\ obs.ret.corrected
        => obs.ret.requested \/ obs.ret.heard

\* C8: the inner rhythm is always given the caller's time less the delay of that
\* moment; the delay never decreases, grows only in a wait for a human bell and
\* is left as it is by a wait for a bell that had already rung (no Look To or
\* stop touch coming in between)
DelayShiftsInnerTimes ==
    /\ [](/\ wfu.inner.last_time = obs.shifted
          /\ (obs.ret.valid /\ obs.ret.delay_added > 0 => obs.ret.user_controlled)
          /\ (obs.ret.valid /\ obs.ret.heard_at_start /\ ~obs.ret.requested
                => obs.ret.delay_added = 0))
    /\ [][wfu'.delay >= wfu.delay]_vars

(***************************************************************************)
(* Specification of the Bot in a tower: each callback runs to its end      *)
(* between two steps of the ringing loop, and a step of the loop is one    *)
(* tick, the start of the next row included                                *)
(***************************************************************************)
\* a method on all the tower's bells whose every second row is rounds
CrossOnly(start_index) ==
    PlaceNotationGenerator(TowerBells, <<"x", "x">>, DefaultBob, DefaultSingle, start_index)

\* the generators a Bot is given: a method that starts at handstroke, the
\* same method started a row later, at backstroke, and a generator that
\* needs more bells than the tower has
BotGens == {CrossOnly(0), CrossOnly(1), PlainHuntGenerator(TowerBells + 1)}

InitBot ==
    /\ \E row_generator \in BotGens, do_up_down_in \in BOOLEAN, stop_at_rounds \in BOOLEAN,
          call_comps \in BOOLEAN :
          bot = NewBot(row_generator, do_up_down_in, stop_at_rounds, call_comps)
    /\ threads = NewThreads
    /\ touch = NewTouch
    /\ PmIdle /\ GenIdle /\ WfuIdle /\ RhyIdle /\ TwrIdle

\* one more callback from the tower
Callback ==
    /\ threads.handler = "idle"
    /\ threads.callbacks < MaxCallbacks

Called == [threads EXCEPT !.callbacks = @ + 1]

\* history: the row that start_next_row has just started, whether it brought
\* the ringing round for a That's All in starting it, and the bells the tower
\* had then
RowStarted(b, came_round) ==
    [kind |-> RowKind(b), row |-> b.row, came_round |-> came_round, bells |-> b.number_of_bells]

\* the tower's Look To
BotLookTo ==
    /\ Callback
    /\ threads.touches < MaxTouches
    /\ bot' = on_look_to(bot)
    /\ threads' = [Called EXCEPT !.touches = @ + 1]
    /\ touch' = IF LookToAccepted(bot)
                THEN [up_down_in |-> bot.do_up_down_in,
                      rows |-> <<RowStarted(bot', FALSE)>>, gos |-> {}, stands |-> {},
                      pending |-> /\ bot.should_stand
                                  /\ bot.rows_left_before_rounds # NONE
                                  /\ bot.rounds_left_before_method # NONE]
                ELSE touch
    /\ UNCHANGED <<pmVars, genVars, wfuVars, rhyVars, twrVars>>

\* the tower's Go
BotGo ==
    /\ Callback
    /\ bot' = on_go(bot)
    /\ threads' = Called
    /\ touch' = IF GoAccepted(bot) THEN [touch EXCEPT !.gos = @ \cup {bot.row_number}]
                ELSE touch
    /\ UNCHANGED <<pmVars, genVars, wfuVars, rhyVars, twrVars>>

\* the tower's Bob
BotBob ==
    /\ Callback
    /\ bot' = on_bob(bot)
    /\ threads' = Called
    /\ UNCHANGED <<touch, pmVars, genVars, wfuVars, rhyVars, twrVars>>

\* the tower's Single
BotSingle ==
    /\ Callback
    /\ bot' = on_single(bot)
    /\ threads' = Called
    /\ UNCHANGED <<touch, pmVars, genVars, wfuVars, rhyVars, twrVars>>

\* the tower's That's All
BotThatsAll ==
    /\ Callback
    /\ bot' = on_thats_all(bot)
    /\ threads' = Called
    /\ UNCHANGED <<touch, pmVars, genVars, wfuVars, rhyVars, twrVars>>

\* the tower's Rounds
BotRounds ==
    /\ Callback
    /\ bot' = on_rounds(bot)
    /\ threads' = Called
    /\ UNCHANGED <<touch, pmVars, genVars, wfuVars, rhyVars, twrVars>>

\* the tower's Stand
BotStandNext ==
    /\ Callback
    /\ bot' = on_stand_next(bot)
    /\ threads' = Called
    /\ touch' = IF bot.is_ringing THEN [touch EXCEPT !.stands = @ \cup {bot.row_number}]
                ELSE touch
    /\ UNCHANGED <<pmVars, genVars, wfuVars, rhyVars, twrVars>>

\* the server's stop-touch signal
BotStopTouch ==
    /\ Callback
    /\ bot' = on_stop_touch(bot)
    /\ threads' = Called
    /\ UNCHANGED <<touch, pmVars, genVars, wfuVars, rhyVars, twrVars>>

\* the server's change of use_up_down_in or stop_at_rounds
BotSettingChange ==
    /\ Callback
    /\ \E key \in {"use_up_down_in", "stop_at_rounds"}, value \in BOOLEAN :
          bot' = on_setting_change(bot, key, value)
    /\ threads' = Called
    /\ UNCHANGED <<touch, pmVars, genVars, wfuVars, rhyVars, twrVars>>

\* the server's new row generator for the next touch
BotRowGenChange ==
    /\ Callback
    /\ \E row_gen \in BotGens : bot' = on_row_gen_change(bot, row_gen)
    /\ threads' = Called
    /\ UNCHANGED <<touch, pmVars, genVars, wfuVars, rhyVars, twrVars>>

\* the tower's reset of its bells
BotSizeChange ==
    /\ Callback
    /\ \E new_size \in TowerSizes : bot' = on_size_change(bot, new_size)
    /\ threads' = Called
    /\ UNCHANGED <<touch, pmVars, genVars, wfuVars, rhyVars, twrVars>>

\* main_loop leaves `while not self._is_ringing`
BotAwaitLookTo ==
    /\ threads.main = "await"
    /\ bot.is_ringing
    /\ threads' = [threads EXCEPT !.main = "ringing"]
    /\ UNCHANGED <<bot, touch, pmVars, genVars, wfuVars, rhyVars, twrVars>>

\* main_loop's `while self._is_ringing`: one tick
BotTick ==
    /\ threads.main = "ringing"
    /\ bot.is_ringing
    /\ bot.place + 1 >= bot.number_of_bells => bot.row_number < MaxBotRows
    /\ IF bot.place >= Len(bot.row)
       THEN \* `self._row[self._place]` raises IndexError: the tower has grown
            \* since the row was generated
            /\ threads' = [threads EXCEPT !.main = "crashed"]
            /\ UNCHANGED <<bot, touch>>
       ELSE /\ bot' = tick(bot)
            /\ LET at_row_end == bot.place + 1 >= bot.number_of_bells
                   holds == StartNextRowHolds(TickPlace(bot), FALSE)
               IN  /\ threads' = IF at_row_end /\ ~holds
                                 THEN [threads EXCEPT !.main = "crashed", !.check_failed = TRUE]
                                 ELSE threads
                   /\ touch' = IF at_row_end /\ holds /\ bot'.is_ringing
                               THEN [touch EXCEPT !.rows = Append(@, RowStarted(bot', ComesRound(bot, HasJustRungRounds(bot))))]
                               ELSE touch
    /\ UNCHANGED <<pmVars, genVars, wfuVars, rhyVars, twrVars>>

\* the server sends Wheatley's own Stand back: Tower._on_call invokes
\* _on_stand_next
BotStandEcho ==
    /\ threads.handler = "idle"
    /\ "Stand" \in bot.emitted
    /\ bot' = on_stand_next([bot EXCEPT !.emitted = @ \ {"Stand"}])
    /\ UNCHANGED <<threads, touch, pmVars, genVars, wfuVars, rhyVars, twrVars>>

\* main_loop's `while self._is_ringing` ends
BotLoopExit ==
    /\ threads.main = "ringing"
    /\ ~bot.is_ringing
    /\ threads' = [threads EXCEPT !.main = "await"]
    /\ UNCHANGED <<bot, touch, pmVars, genVars, wfuVars, rhyVars, twrVars>>

NextBot ==
    \/ BotLookTo \/ BotGo \/ BotBob \/ BotSingle \/ BotThatsAll \/ BotRounds
    \/ BotStandNext \/ BotStopTouch \/ BotSettingChange \/ BotRowGenChange
    \/ BotSizeChange \/ BotStandEcho \/ BotAwaitLookTo \/ BotTick \/ BotLoopExit

SpecBot == InitBot /\ [][NextBot]_vars

\* the rows of the touch by row number
RowAt(r) == touch.rows[r + 1]

RowsStarted == 0..(Len(touch.rows) - 1)

\* row r is rounds on the bells the tower had when it was started
RoundsAt(r) == RowAt(r).row = rounds(RowAt(r).bells)

\* the row the method starts at when Go is accepted during row r
MethodRowAfterGo(r) ==
    IF from_index(r) = start_stroke(bot.row_generator) THEN r + 2 ELSE r + 1

\* row m is a method row and the row before it is not
MethodStartsAt(m) ==
    /\ RowAt(m).kind = "method"
    /\ m > 0 => RowAt(m - 1).kind # "method"

LookToProcessed == threads'.touches = threads.touches + 1 /\ LookToAccepted(bot)

(***************************************************************************)
(* C14: after a Look To that passed the bell-count checks, is_ringing,     *)
(* is_ringing_rounds and is_ringing_opening_row are true, should_stand is  *)
(* false, rows_left_before_rounds is None, row_number and place are 0, and *)
(* rounds_left_before_method is None when up-down-in is off, whatever      *)
(* Stand, That's All or Go came before that Look To.                       *)
(***************************************************************************)
LookToResetsState ==
    [][LookToProcessed =>
          /\ bot'.is_ringing /\ bot'.is_ringing_rounds /\ bot'.is_ringing_opening_row
          /\ ~bot'.should_stand
          /\ bot'.rows_left_before_rounds = NONE
          /\ bot'.row_number = 0 /\ bot'.place = 0
          /\ ~bot'.do_up_down_in => bot'.rounds_left_before_method = NONE]_vars

\* a Look To, with up-down-in off, that found a Stand, a That's All and a Go
\* pending, and the state it left
LookToResetsStateWitness ==
    /\ touch.pending /\ ~touch.up_down_in
    /\ Len(touch.rows) = 1 /\ bot.row_number = 0 /\ bot.place = 0
    /\ bot.is_ringing /\ ~bot.should_stand
    /\ bot.rows_left_before_rounds = NONE /\ bot.rounds_left_before_method = NONE

\* the rows of rounds that Look To arms the up-down-in counter with
UpDownInRounds == IF start_stroke(bot.row_generator) = HANDSTROKE THEN 2 ELSE 3

LastRow == touch.rows[Len(touch.rows)]

\* this step is the ringing loop's start_next_row at the end of a row
RowBoundary == bot'.row_number = bot.row_number + 1

\* stop-at-rounds is on and the row just rung is a method row equal to rounds
MethodCameRound ==
    /\ bot.stop_at_rounds
    /\ LastRow.kind = "method"
    /\ LastRow.row = rounds(LastRow.bells)

(***************************************************************************)
(* C16: with stop-at-rounds on, the end of a row of the rounds rung before *)
(* the method starts does not stop the ringing (no Stand being pending),   *)
(* and after a method row equal to rounds the next row rung, if any, is    *)
(* rounds and is_ringing becomes false at that row boundary when the       *)
(* following stroke is Hand, and at the next one otherwise.                *)
(***************************************************************************)
StopAtRoundsStopsInRounds ==
    [][RowBoundary =>
          /\ (bot.stop_at_rounds /\ LastRow.kind = "opening" /\ ~bot.should_stand)
                => bot'.is_ringing
          /\ MethodCameRound =>
                /\ bot'.is_ringing => (bot'.should_stand /\ bot'.row = rounds(bot'.number_of_bells))
                /\ from_index(bot'.row_number) = HANDSTROKE => ~bot'.is_ringing]_vars

\* the stand flag as start_next_row finds it at the end of the row: up
\* already, or put up by stop-at-rounds in that same call
StandFlagUp == SnrBefore(TickPlace(bot), FALSE).should_stand

MethodStartRefused ==
    /\ RowBoundary
    /\ bot.rounds_left_before_method = {0}
    /\ ~check_number_of_bells(bot, bot.row_generator)

UndersizedTowerForcesStand ==
    [][MethodStartRefused =>
          /\ bot'.is_ringing_rounds
          /\ bot'.row_generator.index = 0
          /\ bot'.is_ringing => bot'.row = rounds(bot'.number_of_bells)
          /\ bot'.should_stand \/ "Stand" \in bot'.emitted \/ ~bot'.is_ringing]_vars

(***************************************************************************)
(* C20: in every state in which a row produced by the row generator is     *)
(* being rung, the tower has at least as many bells as the generator's     *)
(* stage, tower-size and row-generator changes during a touch included.    *)
(***************************************************************************)
MethodRowsFitTower ==
    (bot.is_ringing /\ touch.rows # <<>> /\ LastRow.kind = "method") =>
        bot.number_of_bells >= bot.row_generator.stage

\* the ringing-state fields of the Bot
RingingState(b) ==
    <<b.row_number, b.place, b.row, b.is_ringing_rounds, b.is_ringing_opening_row>>

(***************************************************************************)
(* C21: a callback of the tower (Look To, Go, Bob, Single, That's All,     *)
(* Rounds, Stand, stop-touch) leaves row_number, place, the current row,   *)
(* is_ringing_rounds and is_ringing_opening_row as they were: only the     *)
(* ringing loop writes them.                                               *)
(***************************************************************************)
HandlersLeaveRingingState ==
    [][threads'.callbacks # threads.callbacks => RingingState(bot') = RingingState(bot)]_vars

(***************************************************************************)
(* Specification of the Bot with its two threads interleaved: the Go and   *)
(* Look To callbacks run on the tower's thread while the ringing loop runs *)
(* on the main thread, and nothing orders their reads and writes of the    *)
(* Bot's fields.  _on_go is split between its read of the stroke and its   *)
(* write of the counter, and the loop's start_next_row between the row     *)
(* number's update, the counter's test and the rest, so that a callback    *)
(* can land between any two of them.                                       *)
(***************************************************************************)
InitBotRace ==
    /\ \E start_index \in {0, 1}, do_up_down_in \in BOOLEAN, stop_at_rounds \in BOOLEAN :
          bot = NewBot(CustomCalls(start_index), do_up_down_in, stop_at_rounds, TRUE)
    /\ threads = NewThreads
    /\ touch = NewTouch
    /\ PmIdle /\ GenIdle /\ WfuIdle /\ RhyIdle /\ TwrIdle

\* _on_go reads the flags and the stroke and computes the counter's value
GoRead ==
    /\ Callback
    /\ threads' = IF GoAccepted(bot)
                  THEN [Called EXCEPT !.handler = "go_write", !.go_value = GoRoundsLeft(bot)]
                  ELSE Called
    /\ UNCHANGED <<bot, touch, pmVars, genVars, wfuVars, rhyVars, twrVars>>

\* _on_go assigns the counter
GoWrite ==
    /\ threads.handler = "go_write"
    /\ bot' = [bot EXCEPT !.rounds_left_before_method = threads.go_value]
    /\ threads' = [threads EXCEPT !.handler = "idle", !.go_value = NONE]
    /\ UNCHANGED <<touch, pmVars, genVars, wfuVars, rhyVars, twrVars>>

\* _on_look_to
LookToCalled ==
    /\ Callback
    /\ threads.touches < MaxTouches
    /\ bot' = on_look_to(bot)
    /\ threads' = [Called EXCEPT !.touches = @ + 1]
    /\ UNCHANGED <<touch, pmVars, genVars, wfuVars, rhyVars, twrVars>>

\* _on_stop_touch
StopTouchCalled ==
    /\ Callback
    /\ bot' = on_stop_touch(bot)
    /\ threads' = Called
    /\ UNCHANGED <<touch, pmVars, genVars, wfuVars, rhyVars, twrVars>>

\* main_loop leaves `while not self._is_ringing`
MainAwaitLookTo ==
    /\ threads.main = "await"
    /\ bot.is_ringing
    /\ threads' = [threads EXCEPT !.main = "ringing"]
    /\ UNCHANGED <<bot, touch, pmVars, genVars, wfuVars, rhyVars, twrVars>>

\* tick up to its call of start_next_row
MainTick ==
    /\ threads.main = "ringing"
    /\ bot.is_ringing
    /\ bot.place + 1 >= bot.number_of_bells => bot.row_number < MaxBotRows
    /\ bot' = TickPlace(bot)
    /\ threads' = IF bot'.place >= bot.number_of_bells
                  THEN [threads EXCEPT !.main = "start_next_row"]
                  ELSE threads
    /\ UNCHANGED <<touch, pmVars, genVars, wfuVars, rhyVars, twrVars>>

\* main_loop's `while self._is_ringing` ends
MainLoopExit ==
    /\ threads.main = "ringing"
    /\ ~bot.is_ringing
    /\ threads' = [threads EXCEPT !.main = "await"]
    /\ UNCHANGED <<bot, touch, pmVars, genVars, wfuVars, rhyVars, twrVars>>

\* start_next_row(is_first_row=False): the row indices, the locals and the
\* staged calls
MainRowNumber ==
    /\ threads.main = "start_next_row"
    /\ bot' = SnrBefore(bot, FALSE)
    /\ threads' = [threads EXCEPT !.main = "start_method",
                                  !.has_just_rung_rounds = HasJustRungRounds(bot),
                                  !.next_stroke = from_index(bot'.row_number)]
    /\ UNCHANGED <<touch, pmVars, genVars, wfuVars, rhyVars, twrVars>>

\* ... the counter's test, the assertion and the start of the method
MainStartMethod ==
    /\ threads.main = "start_method"
    /\ IF StartStrokeHolds(bot, threads.next_stroke)
       THEN /\ bot' = SnrStartMethod(bot)
            /\ threads' = [threads EXCEPT !.main = "decrement"]
       ELSE /\ bot' = bot
            /\ threads' = [threads EXCEPT !.main = "crashed", !.check_failed = TRUE]
    /\ UNCHANGED <<touch, pmVars, genVars, wfuVars, rhyVars, twrVars>>

\* ... the counter's decrement and the rest, to the next row
MainRowRest ==
    /\ threads.main = "decrement"
    /\ bot' = SnrRest(SnrDecrement(bot), threads.has_just_rung_rounds, threads.next_stroke)
    /\ threads' = [threads EXCEPT !.main = "ringing"]
    /\ UNCHANGED <<touch, pmVars, genVars, wfuVars, rhyVars, twrVars>>

NextBotRace ==
    \/ GoRead \/ GoWrite \/ LookToCalled \/ StopTouchCalled
    \/ MainAwaitLookTo \/ MainTick \/ MainLoopExit
    \/ MainRowNumber \/ MainStartMethod \/ MainRowRest

SpecBotRace == InitBotRace /\ [][NextBotRace]_vars

\* C3: in every reachable state, under every interleaving of the Go and Look
\* To callbacks with the ringing loop's start of a row, the assertion in
\* start_next_row has not failed: whenever the counter is found to be 0 the
\* stroke of the row about to start is the generator's start stroke.
StartStrokeNeverFails == ~threads.check_failed

(***************************************************************************)
(* Specification of the rhythm as the Bot's callbacks reach it: Look To,   *)
(* the rows the ringing loop starts, the rings of the users' bells and the *)
(* settings messages, each at the wall-clock time it arrives.  The         *)
(* WaitForUserRhythm wfu wraps the RegressionRhythm rhy; no wait is in     *)
(* progress, so the wrapper's delay stays 0.                               *)
(***************************************************************************)
\* LOOK_TO_DURATION in seconds
LookToSeconds == LOOK_TO_DURATION \div 100

\* the settings messages sent: key and JSON value
SettingKeys == {"inertia", "peal_speed", "use_up_down_in", "stop_at_rounds"}
SettingValues ==
    {JNum(0 - 1), JNum(1), JNum(420), JStr("abc"), JStr("true"), JBool(FALSE), JNull}

\* Bot.expect_bell for every bell of the row, as the RegressionRhythm is told
RECURSIVE RegExpectRow(_, _, _, _)
RegExpectRow(r, row, row_number, index) ==
    IF index >= Len(row) THEN r
    ELSE LET bell == row[index + 1]
             r1 == IF user_assigned_bell(bell)
                   THEN regression_expect_bell(r, bell, row_number, index,
                                               from_index(row_number))
                   ELSE r
         IN  RegExpectRow(r1, row, row_number, index + 1)

\* the call of the rhythm a step made
RhyCall(op) ==
    [op |-> op, key |-> "", value |-> JNull, bell |-> 1, stroke |-> HANDSTROKE,
     expected |-> FALSE, index |-> <<0, 0>>, raised |-> ""]

InitRhythm ==
    /\ \E inertia \in {0, 1}, initial_inertia \in {0, 1} :
          rhy = RegressionRhythm(QInt(inertia), 210, QInt(initial_inertia), 2, MaxDataset)
    /\ rhist = NewRhist
    /\ reg = NewReg
    /\ assigned \in Assignments
    /\ wfu = NewWaitForUser /\ ring = NewRing /\ obs = NewObs
    /\ PmIdle /\ GenIdle /\ BotIdle /\ TwrIdle

\* Bot._on_look_to and Bot.look_to_has_been_called: the line is initialised
\* and the bells of the opening row are expected
RhyLookTo ==
    /\ rhist.touches < MaxTouches
    /\ LET user_controls_treble == user_assigned_bell(1)
           number_of_user_controlled_bells ==
               Cardinality({b \in Bells : user_assigned_bell(b)})
           start_time == rhist.now + LookToSeconds
       IN  /\ rhy' = RegExpectRow(
                        regression_initialise_line(rhy, NumBells, user_controls_treble,
                                                   start_time - wfu.delay,
                                                   number_of_user_controlled_bells,
                                                   rhist.added + 1),
                        rounds(NumBells), 0, 0)
           /\ wfu' = ExpectRow(InitialiseLineInner(InitialiseLineClear(wfu),
                                                   user_controls_treble, start_time),
                               rounds(NumBells), 0, 0)
           /\ rhist' = [rhist EXCEPT !.touches = @ + 1, !.row_number = 0,
                                     !.ringing = TRUE, !.observed = 0,
                                     !.added = IF user_controls_treble THEN @ ELSE @ + 1,
                                     !.last = RhyCall("look_to")]
    /\ UNCHANGED <<reg, assigned, ring, obs, pmVars, genVars, botVars, twrVars>>

\* Bot.start_next_row: the bells of the next row are expected
RhyNextRow ==
    /\ rhist.ringing
    /\ rhist.row_number < MaxRowNumber
    /\ \E row \in RowsRung :
        /\ rhy' = RegExpectRow(rhy, row, rhist.row_number + 1, 0)
        /\ wfu' = ExpectRow(wfu, row, rhist.row_number + 1, 0)
    /\ rhist' = [rhist EXCEPT !.row_number = @ + 1, !.last = RhyCall("next_row")]
    /\ UNCHANGED <<reg, assigned, ring, obs, pmVars, genVars, botVars, twrVars>>

\* Bot._on_bell_ring for a bell a user rings: `stroke` is the stroke the
\* bell was rung at, the opposite of the one the tower hands over
RhyBellRing ==
    /\ rhist.events < MaxRings
    /\ \E bell \in Bells, stroke \in BOOLEAN :
        /\ user_assigned_bell(bell)
        /\ LET expected == <<bell, stroke>> \in DOMAIN rhy.expected_bells
               inner == regression_on_bell_ring(rhy, bell, stroke, rhist.now - wfu.delay,
                                                rhist.added + 1)
           IN
            /\ rhy' = inner.obj
            /\ wfu' = IF inner.raised # "" THEN wfu
                      ELSE on_bell_ring(wfu, bell, stroke, rhist.now)
            /\ rhist' = [rhist EXCEPT
                   !.events = @ + 1,
                   !.added = IF expected THEN @ + 1 ELSE @,
                   !.observed = IF expected THEN @ + 1 ELSE @,
                   !.last = [RhyCall("ring") EXCEPT
                       !.bell = bell, !.stroke = stroke, !.expected = expected,
                       !.index = IF expected THEN rhy.expected_bells[<<bell, stroke>>]
                                 ELSE <<0, 0>>,
                       !.raised = IF inner.raised # "" THEN inner.raised
                                  ELSE IF stroke = wfu.current_stroke
                                          /\ wfu.bells_to_user[bell] = NoUser
                                       THEN "KeyError" ELSE ""]]
    /\ UNCHANGED <<reg, assigned, ring, obs, pmVars, genVars, botVars, twrVars>>

\* Tower._on_setting_change and Bot._on_setting_change for one key of the
\* message
RhySettingChange ==
    /\ rhist.settings < MaxSettings
    /\ \E key \in SettingKeys, value \in SettingValues :
        /\ IF key \in {"use_up_down_in", "stop_at_rounds"}
           THEN /\ bot' = IF to_bool(value).raised = ""
                          THEN on_setting_change(bot, key, to_bool(value).value)
                          ELSE bot
                /\ UNCHANGED <<rhy, wfu>>
                /\ rhist' = [rhist EXCEPT !.settings = @ + 1,
                                !.last = [RhyCall("setting") EXCEPT
                                             !.key = key, !.value = value]]
           ELSE LET done == regression_change_setting(rhy, key, value,
                                                      rhist.now - wfu.delay)
                IN  /\ rhy' = done.obj
                    /\ wfu' = change_setting(wfu, rhist.now)
                    /\ bot' = bot
                    /\ rhist' = [rhist EXCEPT !.settings = @ + 1,
                                    !.last = [RhyCall("setting") EXCEPT
                                                 !.key = key, !.value = value,
                                                 !.raised = done.raised]]
    /\ UNCHANGED <<reg, assigned, ring, obs, threads, touch, pmVars, genVars, twrVars>>

\* a second of wall-clock time passes
RhyClock ==
    /\ rhist.now < MaxClock
    /\ rhist' = [rhist EXCEPT !.now = @ + 1, !.last = RhyCall("clock")]
    /\ UNCHANGED <<reg, rhy, assigned, wfu, ring, obs, pmVars, genVars, botVars, twrVars>>

NextRhythm ==
    \/ RhyLookTo
    \/ RhyNextRow
    \/ RhyBellRing
    \/ RhyClock

SpecRhythm == InitRhythm /\ [][NextRhythm]_vars

\* the settings messages on their own, before and during a touch
NextSettings ==
    \/ RhyLookTo
    \/ RhySettingChange
    \/ RhyClock

SpecSettings == InitRhythm /\ [][NextSettings]_vars

\* a step in which a ring matched an expectation and became a data point
ObservationStep ==
    /\ rhist'.last.op = "ring"
    /\ rhist'.last.expected
    /\ rhist'.last.raised = ""

\* the line after the step is the regression line of the new data set
\* blended into the line before it with inertia t; no line is computed for
\* inertia 1 or for fewer than min_bells_in_dataset points.  The ring of the
\* bell expected at blow time 0 first moves the start to the time it rang.
BlendedWith(t) ==
    LET old_start == IF rhist'.last.index = <<0, 0>> THEN Fin(QInt(rhist.now))
                     ELSE rhy.start_time
        line == calculate_regression(rhy'.data_set)
    IN  IF t = QInt(1) \/ Len(rhy'.data_set) < rhy.min_bells_in_dataset
        THEN /\ rhy'.start_time = old_start
             /\ rhy'.blow_interval = rhy.blow_interval
        ELSE /\ rhy'.start_time = LerpTime(line.start, old_start, t)
             /\ rhy'.blow_interval = lerp(line.interval, rhy.blow_interval, t)

(* C30, as stated: the first observation after Look To is blended with the *)
(* initial inertia, every later observation of the touch, those of the     *)
(* first row included, with the preferred inertia.                         *)
InitialInertiaFirstObservationOnly ==
    [][ObservationStep =>
          BlendedWith(IF rhist.observed = 0 THEN rhy.initial_inertia
                      ELSE rhy.preferred_inertia)]_vars

(* C30, amended: an observation is blended with the initial inertia when   *)
(* the bell was expected in row 0, the first row of the touch, and with    *)
(* the preferred inertia when it was expected in any later row.            *)
InitialInertiaFirstRow ==
    [][ObservationStep =>
          BlendedWith(IF rhist'.last.index[1] = 0 THEN rhy.initial_inertia
                      ELSE rhy.preferred_inertia)]_vars

\* the second observation of a touch, expected in row 0, has given a line
\* under an initial inertia that differs from the preferred one
InitialInertiaWitness ==
    /\ rhist.last.op = "ring" /\ rhist.last.expected /\ rhist.last.raised = ""
    /\ rhist.last.index[1] = 0
    /\ rhist.observed >= 2
    /\ rhy.initial_inertia = QInt(0) /\ rhy.preferred_inertia = QInt(1)
    /\ Len(rhy.data_set) >= rhy.min_bells_in_dataset
    /\ rhy.blow_interval # peal_speed_to_blow_interval(rhy.peal_speed, rhy.stage)

\* the calls that added the points of a data set
AddedBy(data_set) == {data_set[k].n : k \in 1..Len(data_set)}

\* the data set holds no more than max_bells_in_dataset points, each of a
\* weight above WEIGHT_REJECTION_THRESHOLD
DataSetBounded ==
    /\ Len(rhy.data_set) <= rhy.max_bells_in_dataset
    /\ \A k \in 1..Len(rhy.data_set) :
          QLess(WEIGHT_REJECTION_THRESHOLD, rhy.data_set[k].w)

\* an observation removes a point already held only when the new point
\* brings the data set to its bound, and then it removes the one point
\* that was added first
OldestEvicted ==
    rhist'.last.op = "ring" /\ rhist'.last.expected =>
        LET removed == AddedBy(rhy.data_set) \ AddedBy(rhy'.data_set)
            bound_hit == /\ rhist'.added \in AddedBy(rhy'.data_set)
                         /\ Len(rhy.data_set) + 1 >= rhy.max_bells_in_dataset
        IN  /\ Cardinality(removed) <= 1
            /\ \A n \in removed : \A m \in AddedBy(rhy.data_set) : n <= m
            /\ removed # {} <=> bound_hit

\* Look To leaves the data set empty
LookToEmpties ==
    rhist'.last.op = "look_to" /\ rhist'.touches = rhist.touches + 1 =>
        rhy'.data_set = <<>>

\* Look To removes every point held before; it leaves the data set empty
\* when a user rings the treble, and otherwise holding the one point that
\* stands for Wheatley's treble: blow time 0 at the start time, weight 1
LookToDiscards ==
    rhist'.last.op = "look_to" /\ rhist'.touches = rhist.touches + 1 =>
        rhy'.data_set =
            IF user_assigned_bell(1) THEN <<>>
            ELSE <<[b |-> 0, r |-> rhist.now + LookToSeconds, w |-> QInt(1),
                    n |-> rhist'.added]>>

PrunedWitness ==
    /\ rhist.last.op = "ring" /\ rhist.last.expected
    /\ rhist.added \notin AddedBy(rhy.data_set)

(* C26: a ring of a user's bell at a stroke it is not expected at raises   *)
(* no error and leaves the data set, the start time and the blow interval  *)
(* as they were; a ring that matches an expectation uses it up, so that a   *)
(* second ring of the bell at that stroke is unexpected until the bell is  *)
(* expected again.                                                         *)
UnexpectedRingIgnored ==
    [][rhist'.last.op = "ring" /\ rhist'.events = rhist.events + 1 =>
          /\ ~rhist'.last.expected =>
                /\ rhist'.last.raised = ""
                /\ rhy'.data_set = rhy.data_set
                /\ rhy'.start_time = rhy.start_time
                /\ rhy'.blow_interval = rhy.blow_interval
          /\ rhist'.last.expected /\ rhist'.last.raised = "" =>
                <<rhist'.last.bell, rhist'.last.stroke>> \notin DOMAIN rhy'.expected_bells]_vars

\* the settings values the handler is to refuse
InvalidSetting(key, value) ==
    \/ /\ key = "inertia"
       /\ \/ value.type = "null"
          \/ value.type = "str" /\ ToNumber(value).raised # ""
          \/ value.type = "num" /\ (value.n < 0 \/ value.n > 1)
    \/ /\ key = "peal_speed"
       /\ \/ value.type = "null"
          \/ value.type = "str" /\ ToNumber(value).raised # ""
          \/ value.type = "num" /\ value.n <= 0
    \/ /\ key \in {"use_up_down_in", "stop_at_rounds"}
       /\ \/ value.type = "null"
          \/ value.type = "str" /\ value.s \notin {"True", "true", "False", "false"}
          \/ value.type = "num" /\ value.n \notin {0, 1}

(* C29: a settings message whose value is invalid for its key (an inertia  *)
(* outside [0, 1] or no number, a peal speed that is not positive or no    *)
(* number, a use_up_down_in or stop_at_rounds that is no boolean) changes  *)
(* neither the rhythm nor the Bot, and no exception escapes its handler.   *)
InvalidSettingIgnored ==
    [][/\ rhist'.last.op = "setting" /\ rhist'.settings = rhist.settings + 1
       /\ InvalidSetting(rhist'.last.key, rhist'.last.value)
       => /\ rhy' = rhy
          /\ bot' = bot
          /\ rhist'.last.raised = ""]_vars

(***************************************************************************)
(* Specification of the calls Wheatley makes when it rings a composition:  *)
(* the Bot with a ComplibCompositionGenerator whose leading rows of rounds *)
(* carry early calls, Look To, Go and stop-touch from the tower, the       *)
(* ringing loop, and the server sending Wheatley's calls back              *)
(***************************************************************************)
\* the composition of the docstring of RowGenerator.early_calls: two rows
\* of rounds that carry 'Go Original' and 'Single', then the touch
CompHand ==
    ComplibCompositionGenerator(TowerBells,
        <<[row |-> rounds(TowerBells), calls |-> <<"Go Original">>],
          [row |-> rounds(TowerBells), calls |-> <<"Single">>],
          [row |-> Reverse(rounds(TowerBells)), calls |-> <<"Bob">>],
          [row |-> rounds(TowerBells), calls |-> <<"That's All">>]>>)

\* a composition that starts at backstroke: three rows of rounds, the
\* second with no call but 'Stand'
CompBack ==
    ComplibCompositionGenerator(TowerBells,
        <<[row |-> rounds(TowerBells), calls |-> <<"Go Original", "Bob">>],
          [row |-> rounds(TowerBells), calls |-> <<"Stand">>],
          [row |-> rounds(TowerBells), calls |-> <<"Single", "Stand">>],
          [row |-> Reverse(rounds(TowerBells)), calls |-> <<>>],
          [row |-> rounds(TowerBells), calls |-> <<"That's All">>]>>)

CallGens == {CompHand, CompBack}

\* history: the calls `call_list` as Wheatley makes them now
SaidBy(b, by, call_list) ==
    IF b.call_comps
    THEN [i \in 1..Len(call_list) |->
             [row |-> b.row_number, place |-> b.place, by |-> by, call |-> call_list[i]]]
    ELSE <<>>

\* history: the counter as start_next_row leaves it for the row it started
RowLeft(b) == [left |-> b.rounds_left_before_method, kind |-> RowKind(b)]

InitCalls ==
    /\ \E row_generator \in CallGens, do_up_down_in \in BOOLEAN, call_comps \in BOOLEAN :
          bot = NewBot(row_generator, do_up_down_in, FALSE, call_comps)
    /\ threads = NewThreads
    /\ touch = NewTouch
    /\ tower = NewTower
    /\ rlog = NewRingLog
    /\ PmIdle /\ GenIdle /\ WfuIdle /\ RhyIdle

\* the tower's Look To
CallLookTo ==
    /\ Callback
    /\ threads.touches < MaxTouches
    /\ bot' = on_look_to(bot)
    /\ threads' = [Called EXCEPT !.touches = @ + 1]
    /\ touch' = IF LookToAccepted(bot)
                THEN [up_down_in |-> bot.do_up_down_in,
                      rows |-> <<RowStarted(bot', FALSE)>>, gos |-> {}, stands |-> {},
                      pending |-> /\ bot.should_stand
                                  /\ bot.rows_left_before_rounds # NONE
                                  /\ bot.rounds_left_before_method # NONE]
                ELSE touch
    /\ rlog' = IF LookToAccepted(bot)
               THEN [rlog EXCEPT !.said = <<>>, !.rows = <<RowLeft(bot')>>]
               ELSE rlog
    /\ UNCHANGED <<tower, pmVars, genVars, wfuVars, rhyVars>>

\* the tower's Go
CallGo ==
    /\ Callback
    /\ bot' = on_go(bot)
    /\ threads' = Called
    /\ touch' = IF GoAccepted(bot) THEN [touch EXCEPT !.gos = @ \cup {bot.row_number}]
                ELSE touch
    /\ rlog' = IF GoAccepted(bot)
               THEN [rlog EXCEPT !.said = @ \o SaidBy(bot, "go", GoCalls(bot)),
                                 !.go = [n |-> @.n + 1, from |-> Len(rlog.said)]]
               ELSE rlog
    /\ UNCHANGED <<tower, pmVars, genVars, wfuVars, rhyVars>>

\* Tower._on_call for a call Wheatley has made and the server sends back:
\* the callback registered for the call, if there is one
OnCall(b, call) ==
    IF call = "Bob" THEN on_bob(b)
    ELSE IF call = "Single" THEN on_single(b)
    ELSE IF call = "That's All" THEN on_thats_all(b)
    ELSE IF call = "Stand" THEN on_stand_next(b)
    ELSE IF call = "Go" THEN on_go(b)
    ELSE IF call = "Rounds" THEN on_rounds(b)
    ELSE IF call = "Look To" THEN on_look_to(b)
    ELSE b

CallEcho ==
    /\ threads.handler = "idle"
    /\ \E call \in bot.emitted :
          bot' = OnCall([bot EXCEPT !.emitted = @ \ {call}], call)
    /\ UNCHANGED <<threads, touch, twrVars, pmVars, genVars, wfuVars, rhyVars>>

\* main_loop's `while self._is_ringing`: one tick
CallTick ==
    /\ threads.main = "ringing"
    /\ bot.is_ringing
    /\ bot.place + 1 >= bot.number_of_bells => bot.row_number < MaxBotRows
    /\ bot' = tick(bot)
    /\ LET at_row_end == bot.place + 1 >= bot.number_of_bells
           holds == StartNextRowHolds(TickPlace(bot), FALSE)
       IN  /\ threads' = IF at_row_end /\ ~holds
                         THEN [threads EXCEPT !.main = "crashed", !.check_failed = TRUE]
                         ELSE threads
           /\ touch' = IF at_row_end /\ holds /\ bot'.is_ringing
                       THEN [touch EXCEPT !.rows = Append(@, RowStarted(bot', ComesRound(bot, HasJustRungRounds(bot))))]
                       ELSE touch
           /\ rlog' = [rlog EXCEPT
                          !.said = @ \o SaidBy(bot, "tick", TickCalls(bot)),
                          !.rows = IF at_row_end /\ holds /\ bot'.is_ringing
                                   THEN Append(@, RowLeft(bot')) ELSE @]
    /\ UNCHANGED <<tower, pmVars, genVars, wfuVars, rhyVars>>

NextCalls ==
    \/ CallLookTo
    \/ CallGo
    \/ CallEcho
    \/ CallTick
    \/ BotStopTouch
    \/ BotAwaitLookTo
    \/ BotLoopExit

SpecCalls == InitCalls /\ [][NextCalls]_vars

\* the calls of the keys `keys`, the largest key first
RECURSIVE LargestFirst(_, _)
LargestFirst(early, keys) ==
    IF keys = {} THEN <<>>
    ELSE LET k == CHOOSE k \in keys : \A j \in keys : j <= k
         IN  early[k] \o LargestFirst(early, keys \ {k})

(* C24: a Go received while rounds or the opening row is rung, with call   *)
(* announcements on, makes at once the early calls of every key greater    *)
(* than the counter _rounds_left_before_method it has just set, and only   *)
(* those, in decreasing order of key, the calls of one key in their        *)
(* original order.                                                         *)
GoMakesMissedCalls ==
    [][rlog'.go.n = rlog.go.n + 1 /\ bot.call_comps =>
          LET early == early_calls(bot.row_generator)
              made == SubSeq(rlog'.said, Len(rlog.said) + 1, Len(rlog'.said))
          IN  /\ [i \in 1..Len(made) |-> made[i].call] =
                     LargestFirst(early, {k \in DOMAIN early :
                                             {k} # bot'.rounds_left_before_method
                                             /\ \A n \in bot'.rounds_left_before_method : k > n})
              /\ \A i \in 1..Len(made) :
                    made[i].by = "go" /\ made[i].call \in bot'.emitted]_vars

\* a Go against the start stroke has made 'Go Original' and then 'Single'
GoMakesMissedCallsWitness ==
    /\ rlog.go.n > 0
    /\ bot.call_comps
    /\ bot.rounds_left_before_method = {0}
    /\ Len(rlog.said) = rlog.go.from + 2
    /\ rlog.said[rlog.go.from + 1].call = "Go Original"
    /\ rlog.said[rlog.go.from + 2].call = "Single"
    /\ rlog.said[rlog.go.from + 2].by = "go"

\* the calls the tick of place 0 of row `row_number` has made
SaidAtLead(row_number) ==
    LET at == SelectSeq(rlog.said,
                        LAMBDA e : e.by = "tick" /\ e.row = row_number /\ e.place = 0)
    IN  [i \in 1..Len(at) |-> at[i].call]

(* C25: with call announcements on, when the counter stood at k as a row   *)
(* was started and was counted down from there to the start of the method  *)
(* (the method start was armed at least k rows ahead), the early calls of  *)
(* key k have been made at place 0 of that row, which is the row exactly k *)
(* rows before the first row of the method.                                *)
EarlyCallsAtTheirRows ==
    \A m \in 2..Len(rlog.rows) : \A k \in 1..(m - 1) :
        /\ bot.call_comps
        /\ rlog.rows[m].kind = "method" /\ rlog.rows[m - 1].kind # "method"
        /\ k \in DOMAIN early_calls(bot.row_generator)
        /\ \A i \in 0..(k - 1) : rlog.rows[m - k + i].left = {k - 1 - i}
        => SaidAtLead(m - k - 1) = early_calls(bot.row_generator)[k]

\* with up-down-in, 'Go Original' has been made at the lead of row 0 and
\* 'Single' at the lead of row 1, and row 2 is the first row of the method
EarlyCallsWitness ==
    /\ bot.call_comps
    /\ Len(rlog.rows) = 3
    /\ rlog.rows[3].kind = "method" /\ rlog.rows[2].kind # "method"
    /\ rlog.rows[1].left = {1} /\ rlog.rows[2].left = {0}
    /\ SaidAtLead(0) = <<"Go Original">>
    /\ SaidAtLead(1) = <<"Single">>

(***************************************************************************)
(* Specification of the ringing loop against the tower: the Bot's ticks    *)
(* with RingingRoomTower's bell state and bell assignments, which the      *)
(* server changes while a row is rung                                      *)
(***************************************************************************)
\* RingingRoomTower.is_bell_assigned_to, for Wheatley's own user name
bot_assigned_bell(t, bell) == t.assigned_users[bell] = Wheatley

RingBellUnchecked(t, bell, expected_stroke) == 1

\* RingingRoomTower.ring_bell: the number of c_bell_rung requests it sends
ring_bell(t, bell, expected_stroke) ==
    IF t.bell_state[bell] # expected_stroke THEN 0 ELSE 1

\* the bells of the row just started for which Bot.expect_bell calls the
\* rhythm's expect_bell
ExpectedOf(b, t) ==
    IF b.is_ringing
    THEN {b.row[i] : i \in {j \in 1..Len(b.row) : ~bot_assigned_bell(t, b.row[j])}}
    ELSE {}

RingAssignments == [1..TowerBells -> {Wheatley, "a"}]

InitRing ==
    /\ \E do_up_down_in \in BOOLEAN :
          bot = NewBot(PlainHuntGenerator(TowerBells), do_up_down_in, FALSE, FALSE)
    /\ threads = NewThreads
    /\ touch = NewTouch
    /\ \E assigned_users \in RingAssignments : tower = Tower(assigned_users)
    /\ rlog = NewRingLog
    /\ PmIdle /\ GenIdle /\ WfuIdle /\ RhyIdle

\* the tower's Look To
RingLookTo ==
    /\ Callback
    /\ threads.touches < MaxTouches
    /\ bot' = on_look_to(bot)
    /\ threads' = [Called EXCEPT !.touches = @ + 1]
    /\ rlog' = IF LookToAccepted(bot)
               THEN [rlog EXCEPT !.expected = ExpectedOf(bot', tower)]
               ELSE rlog
    /\ UNCHANGED <<touch, tower, pmVars, genVars, wfuVars, rhyVars>>

\* the tower's Go
RingGo ==
    /\ Callback
    /\ bot' = on_go(bot)
    /\ threads' = Called
    /\ UNCHANGED <<touch, twrVars, pmVars, genVars, wfuVars, rhyVars>>

\* RingingRoomTower._on_assign_user: a bell is assigned to a user or unassigned
RingAssignUser ==
    /\ Callback
    /\ \E bell \in 1..TowerBells, user \in {Wheatley, "a"} :
          /\ tower.assigned_users[bell] # user
          /\ tower' = [tower EXCEPT !.assigned_users[bell] = user]
    /\ threads' = Called
    /\ UNCHANGED <<bot, touch, rlog, pmVars, genVars, wfuVars, rhyVars>>

\* RingingRoomTower._on_bell_rung: someone has rung a bell, which changes
\* its stroke in the global bell state
RingBellRung ==
    /\ Callback
    /\ \E bell \in 1..TowerBells :
          tower' = [tower EXCEPT !.bell_state[bell] = opposite(@)]
    /\ threads' = Called
    /\ UNCHANGED <<bot, touch, rlog, pmVars, genVars, wfuVars, rhyVars>>

\* main_loop's `while self._is_ringing`: one tick
RingTick ==
    /\ threads.main = "ringing"
    /\ bot.is_ringing
    /\ bot.place + 1 >= bot.number_of_bells => bot.row_number < MaxBotRows
    /\ bot' = tick(bot)
    /\ LET bell == bot.row[bot.place + 1]
           user_controlled == ~bot_assigned_bell(tower, bell)
           at_row_end == bot.place + 1 >= bot.number_of_bells
       IN  rlog' = [rlog EXCEPT
                       !.waited = [n |-> @.n + 1, row |-> bot.row_number, place |-> bot.place,
                                   bell |-> bell, stroke |-> BotStrokeOf(bot),
                                   user_controlled |-> user_controlled,
                                   expected |-> rlog.expected,
                                   requests |-> IF user_controlled THEN 0
                                                ELSE ring_bell(tower, bell, BotStrokeOf(bot))],
                       !.expected = IF at_row_end THEN ExpectedOf(bot', tower) ELSE @]
    /\ UNCHANGED <<threads, touch, tower, pmVars, genVars, wfuVars, rhyVars>>

NextRing ==
    \/ RingLookTo
    \/ RingGo
    \/ RingAssignUser
    \/ RingBellRung
    \/ RingTick
    \/ BotStopTouch
    \/ BotAwaitLookTo
    \/ BotLoopExit

SpecRing == InitRing /\ [][NextRing]_vars

(* C22: when wait_for_bell_time is called for a place of a row whose bell  *)
(* is human-controlled at that moment, expect_bell has been called for     *)
(* that bell and that row (the ticks themselves come one at a time from    *)
(* the one ringing loop).                                                  *)
WaitedBellsWereExpected ==
    rlog.waited.n > 0 /\ rlog.waited.user_controlled
        => rlog.waited.bell \in rlog.waited.expected

\* the place the ringing loop is at after the tick of place `place` of row
\* `row_number`
PlaceAfter(row_number, place) ==
    IF place + 1 < TowerBells THEN <<row_number, place + 1>> ELSE <<row_number + 1, 0>>

\* a tick of the ringing loop is at the place the loop stood at, of the
\* bell of the row there, and leaves the loop at the next place
TicksInOrder ==
    /\ rlog'.waited.row = bot.row_number
    /\ rlog'.waited.place = bot.place
    /\ rlog'.waited.bell = bot.row[bot.place + 1]
    /\ rlog'.waited.user_controlled = (tower.assigned_users[rlog'.waited.bell] # Wheatley)
    /\ bot'.is_ringing => <<bot'.row_number, bot'.place>> = PlaceAfter(bot.row_number, bot.place)
    /\ bot.place + 1 < TowerBells => bot'.row = bot.row

(* C23, as stated: each tick is at the next place of the row, places 0 to  *)
(* number_of_bells - 1 in order and then place 0 of the next row, and      *)
(* sends exactly one ring request when the bell is not human-controlled    *)
(* and none when it is.                                                    *)
OneRequestPerBotBell ==
    [][rlog'.waited.n = rlog.waited.n + 1 =>
          /\ TicksInOrder
          /\ rlog'.waited.requests = IF rlog'.waited.user_controlled THEN 0 ELSE 1]_vars

(* C23, amended: each tick is at the next place of the row, and sends      *)
(* exactly one ring request when the bell is not human-controlled and the  *)
(* tower holds it at the stroke of the row, and none otherwise.            *)
OneRequestPerRingableBell ==
    [][rlog'.waited.n = rlog.waited.n + 1 =>
          /\ TicksInOrder
          /\ rlog'.waited.requests =
                IF /\ ~rlog'.waited.user_controlled
                   /\ tower.bell_state[rlog'.waited.bell] = from_index(bot.row_number)
                THEN 1 ELSE 0]_vars

\* the last tick of a row has sent the request for Wheatley's bell and the
\* loop stands at place 0 of the next row
RingableWitness ==
    /\ rlog.waited.n > 1
    /\ rlog.waited.place = TowerBells - 1
    /\ ~rlog.waited.user_controlled
    /\ rlog.waited.requests = 1
    /\ bot.is_ringing /\ bot.place = 0 /\ bot.row_number = rlog.waited.row + 1

\* a tick has found Wheatley's bell at the other stroke and sent nothing
BellAtOtherStrokeWitness ==
    /\ rlog.waited.n > 0
    /\ ~rlog.waited.user_controlled
    /\ rlog.waited.requests = 0

(***************************************************************************)
(* Specification of calculate_regression on its own: any small data set    *)
(***************************************************************************)
MaxPoints == 3      \* data points of a data set
MaxBlow == 2        \* largest blow time of a data point
MaxReal == 2        \* largest real time of a data point

\* the weights on_bell_ring gives: 1 for a ring in its place, 3/8 for one a
\* place off
RegWeights == {<<1, 1>>, <<3, 8>>}

RegPoints == [b : 0..MaxBlow, r : 0..MaxReal]

\* the first point has one weight and the others share one
InitRegress ==
    /\ \E len \in 1..MaxPoints, first \in RegWeights, others \in RegWeights :
          \E data_set \in [1..len -> RegPoints] :
             reg = [NewReg EXCEPT !.data_set = [k \in 1..len |->
                                                   [b |-> data_set[k].b, r |-> data_set[k].r,
                                                    w |-> IF k = 1 THEN first ELSE others,
                                                    n |-> k]]]
    /\ rhy = RegressionRhythm(QInt(0), 210, QInt(0), 2, MaxDataset)
    /\ rhist = NewRhist
    /\ PmIdle /\ GenIdle /\ WfuIdle /\ BotIdle /\ TwrIdle

\* the call calculate_regression(data_set)
Regress ==
    /\ ~reg.called
    /\ reg' = [reg EXCEPT !.called = TRUE, !.ret = calculate_regression(reg.data_set)]
    /\ UNCHANGED <<rhy, rhist, pmVars, genVars, wfuVars, botVars, twrVars>>

NextRegress == Regress

SpecRegress == InitRegress /\ [][NextRegress]_vars

\* the line through two data points of distinct blow times, as <<a, b>>
LineThrough(p, q) ==
    LET slope == Q(q.r - p.r, q.b - p.b)
    IN  <<QSub(QInt(p.r), QMul(slope, QInt(p.b))), slope>>

\* the data point lies on the line real_time = a + b * blow_time
OnLine(p, line) == QInt(p.r) = QAdd(line[1], QMul(line[2], QInt(p.b)))

(* C31: for a data set of equal weights whose points lie on one line       *)
(* real_time = a + b * blow_time (two of them at distinct blow times, which *)
(* fixes the line), calculate_regression returns (a, b); for a data set of *)
(* two points of distinct blow times, of whatever weights, it returns the  *)
(* line through them.                                                      *)
RegressionRecoversLine ==
    reg.called =>
        LET d == reg.data_set
        IN  \A i, j \in DOMAIN d :
                /\ d[i].b # d[j].b
                /\ \/ Len(d) = 2
                   \/ /\ \A k \in DOMAIN d : d[k].w = d[i].w
                      /\ \A k \in DOMAIN d : OnLine(d[k], LineThrough(d[i], d[j]))
                => /\ ~reg.ret.singular
                   /\ <<reg.ret.start, reg.ret.interval>> = LineThrough(d[i], d[j])

\* three points of weight 3/8 on the line of slope 1 from 0, and the call
\* has returned that line
RegressionWitness ==
    /\ reg.called
    /\ Len(reg.data_set) = 3
    /\ \A k \in 1..3 : reg.data_set[k].w = <<3, 8>> /\ reg.data_set[k].r = reg.data_set[k].b
    /\ {reg.data_set[k].b : k \in 1..3} = {0, 1, 2}
    /\ reg.ret.start = QInt(0) /\ reg.ret.interval = QInt(1)

(* C36: generating a row leaves a pending Bob pending unless the row is at *)
(* a lead index with a Bob override, where the Bob is used, and leaves a   *)
(* pending Single pending unless the Single is used at that row (the index *)
(* has a Single override and no Bob is used there): a call used clears its *)
(* own flag only.                                                          *)
PendingCallsKept ==
    [][RowStep =>
          /\ rg.has_bob /\ ~BobStarts => rg'.has_bob
          /\ rg.has_single /\ ~(SingleStarts /\ ~BobStarts) => rg'.has_single]_vars

(***************************************************************************)
(* Specification of the start of the method: the Bot with a method whose   *)
(* Bob lasts two changes, rung in touches that Look To starts over, with   *)
(* Bobs and Singles called while rounds and while the method is rung       *)
(***************************************************************************)
\* a method of two changes, with a Bob of two changes that starts at its
\* second change
TwoChangeBob ==
    PlaceNotationGenerator(TowerBells, <<"-", "1", "4">>,
                           << <<2, <<"3", "4", ".", "1", "4">> >> >>, DefaultSingle, 0)

InitMethod ==
    /\ \E do_up_down_in \in BOOLEAN : bot = NewBot(TwoChangeBob, do_up_down_in, FALSE, FALSE)
    /\ threads = NewThreads
    /\ touch = NewTouch
    /\ PmIdle /\ GenIdle /\ WfuIdle /\ RhyIdle /\ TwrIdle

NextMethod ==
    \/ BotLookTo
    \/ BotGo
    \/ BotBob
    \/ BotSingle
    \/ BotStopTouch
    \/ BotAwaitLookTo
    \/ BotTick
    \/ BotLoopExit

SpecMethod == InitMethod /\ [][NextMethod]_vars

\* the tick that ends the last row of rounds before the method, with a Bob
\* or a Single pending that was called while rounds was rung
MethodStartsAfterCall ==
    /\ bot.is_ringing /\ bot.is_ringing_rounds
    /\ bot.rounds_left_before_method = {0}
    /\ bot.row_generator.has_bob \/ bot.row_generator.has_single
    /\ bot'.row_number = bot.row_number + 1
    /\ bot'.is_ringing /\ ~bot'.is_ringing_rounds

(* C40: a Bob or Single called while rounds is rung before the method      *)
(* starts leaves the method's rows as they are: at the row boundary where  *)
(* the method starts the row generator is reset before the first row is    *)
(* generated, so that row and the generator after it are those of a        *)
(* generator freshly constructed.                                          *)
MethodStartsFromFreshGenerator ==
    [][MethodStartsAfterCall =>
          /\ bot'.row_generator = next_row_and_calls(TwoChangeBob, from_index(bot'.row_number))
          /\ bot'.row = bot'.row_generator.row]_vars

(* C33: the ringing loop announces calls only at place 0 of a row, and a   *)
(* row of rounds started while no method start was armed (the counter      *)
(* _rounds_left_before_method is None as the row starts) announces none,   *)
(* whatever calls the last generated row carried.                          *)
RoundsAnnounceNoCalls ==
    \A i \in DOMAIN rlog.said :
        rlog.said[i].by = "tick" =>
            /\ rlog.said[i].place = 0
            /\ rlog.said[i].row + 1 \in DOMAIN rlog.rows
            /\ ~ /\ rlog.rows[rlog.said[i].row + 1].kind # "method"
                 /\ rlog.rows[rlog.said[i].row + 1].left = NONE

\* how many of the calls made in the touch so far are the call `call`
TimesSaid(call) == Len(SelectSeq(rlog.said, LAMBDA e : e.call = call))

\* how many times the early calls of the generator hold the call `call`
RECURSIVE TimesEarly(_, _, _)
TimesEarly(early, keys, call) ==
    IF keys = {} THEN 0
    ELSE LET k == CHOOSE k \in keys : TRUE
         IN  Len(SelectSeq(early[k], LAMBDA c : c = call)) + TimesEarly(early, keys \ {k}, call)

(* C35: within one touch each early call of the row generator is made at   *)
(* most once, by the Go handler or at its row: a call is never made more   *)
(* often in the rounds before the method than the early calls hold it.     *)
EarlyCallsOnce ==
    LET early == early_calls(bot.row_generator)
    IN  \A k \in DOMAIN early : \A i \in DOMAIN early[k] :
            (rlog.rows # <<>> /\ \A j \in DOMAIN rlog.rows : rlog.rows[j].kind # "method")
                => TimesSaid(early[k][i]) <= TimesEarly(early, DOMAIN early, early[k][i])

(* C34: whenever the ringing loop is about to tick, the place is an index  *)
(* into the row being rung (_place < len(_row)), also after the tower's    *)
(* bell count has changed in the middle of the row, so the lookup          *)
(* _row[_place] of tick does not fail.                                     *)
PlaceIndexesRow ==
    /\ threads.main = "ringing" /\ bot.is_ringing => bot.place < Len(bot.row)
    /\ threads.main = "crashed" => threads.check_failed

\* ---------------------------------------------------------------------------
\* The handlers that touch next_row_generator, each on its own thread
\* (Bot.__init__, the comment on next_row_generator_lock): _on_size_change,
\* _on_row_gen_change and _on_look_to, step by step.
\* ---------------------------------------------------------------------------

\* the generators a row-gen-change notification delivers: one that fits every
\* tower size, one that needs every bell, one that needs a bell too many
ArrivingGens ==
    {PlainHuntGenerator(TowerBells - 1), PlainHuntGenerator(TowerBells),
     PlainHuntGenerator(TowerBells + 1)}

InitLock ==
    /\ \E do_up_down_in \in BOOLEAN :
          bot = NewBot(PlainHuntGenerator(TowerBells - 1), do_up_down_in, FALSE, TRUE)
    /\ threads = NewThreads
    /\ touch = NewTouch
    /\ PmIdle /\ GenIdle /\ WfuIdle /\ RhyIdle /\ TwrIdle

\* threading.Lock.acquire does not block
AcquireUnlocked(lock) == TRUE

\* threading.Lock.acquire returns once no thread holds the lock
Acquire(lock) == lock = "free"

\* _on_row_gen_change: the assignment, made holding the lock
RowGenChange ==
    /\ threads.callbacks < MaxCallbacks
    /\ Acquire(threads.lock)
    /\ \E row_gen \in ArrivingGens :
          /\ bot' = on_row_gen_change(bot, row_gen)
          /\ threads' = [Called EXCEPT !.arrived = row_gen,
                                       !.overlap = threads.size_handler # "idle"]
    /\ UNCHANGED <<touch, pmVars, genVars, wfuVars, rhyVars, twrVars>>

\* _on_size_change up to the `with`: the new size, opening row and rounds
SizeChange ==
    /\ threads.callbacks < MaxCallbacks
    /\ threads.size_handler = "idle"
    /\ \E new_size \in TowerSizes :
          bot' = [bot EXCEPT !.number_of_bells = new_size,
                             !.opening_row = rounds(new_size),
                             !.rounds = rounds(new_size)]
    /\ threads' = [Called EXCEPT !.size_handler = "check"]
    /\ UNCHANGED <<touch, pmVars, genVars, wfuVars, rhyVars, twrVars>>

\* _on_size_change: the lock is taken and the `if` condition evaluated
SizeCheck ==
    /\ threads.size_handler = "check"
    /\ Acquire(threads.lock)
    /\ threads' = [threads EXCEPT
                      !.lock = "size",
                      !.size_handler =
                          IF bot.next_row_generator # NoGenerator
                             /\ ~check_number_of_bells(bot, bot.next_row_generator)
                          THEN "clear" ELSE "release"]
    /\ UNCHANGED <<bot, touch, pmVars, genVars, wfuVars, rhyVars, twrVars>>

\* _on_size_change: the body of the `if`, and the end of the `with`
SizeClear ==
    /\ threads.size_handler = "clear"
    /\ bot' = [bot EXCEPT !.next_row_generator = NoGenerator]
    /\ threads' = [threads EXCEPT
                      !.lock = "free",
                      !.size_handler = "idle",
                      !.cleared = [row_gen |-> bot.next_row_generator,
                                   number_of_bells |-> bot.number_of_bells],
                      !.arrived = IF bot.next_row_generator = @ THEN NoGenerator ELSE @]
    /\ UNCHANGED <<touch, pmVars, genVars, wfuVars, rhyVars, twrVars>>

\* _on_size_change: the end of the `with` when the `if` was not taken
SizeRelease ==
    /\ threads.size_handler = "release"
    /\ threads' = [threads EXCEPT !.lock = "free", !.size_handler = "idle"]
    /\ UNCHANGED <<bot, touch, pmVars, genVars, wfuVars, rhyVars, twrVars>>

\* _on_look_to and look_to_has_been_called up to
\* `self.row_generator = self.next_row_generator or self.row_generator`
LookToSwap ==
    /\ threads.callbacks < MaxCallbacks
    /\ threads.look_to_handler = "idle"
    /\ LookToAccepted(bot)
    /\ bot' = [bot EXCEPT !.row_generator = IF bot.next_row_generator # NoGenerator
                                            THEN bot.next_row_generator ELSE @]
    /\ threads' = [Called EXCEPT !.look_to_handler = "clear"]
    /\ UNCHANGED <<touch, pmVars, genVars, wfuVars, rhyVars, twrVars>>

\* look_to_has_been_called from `self.next_row_generator = None` to its end
LookToClear ==
    /\ threads.look_to_handler = "clear"
    /\ bot' = look_to_has_been_called([bot EXCEPT !.next_row_generator = NoGenerator])
    /\ threads' = [threads EXCEPT !.look_to_handler = "idle"]
    /\ UNCHANGED <<touch, pmVars, genVars, wfuVars, rhyVars, twrVars>>

\* _on_look_to when one of its two checks fails
LookToRefused ==
    /\ threads.callbacks < MaxCallbacks
    /\ threads.look_to_handler = "idle"
    /\ ~LookToAccepted(bot)
    /\ threads' = Called
    /\ UNCHANGED <<bot, touch, pmVars, genVars, wfuVars, rhyVars, twrVars>>

NextLock ==
    \/ RowGenChange \/ SizeChange \/ SizeCheck \/ SizeClear \/ SizeRelease
    \/ LookToSwap \/ LookToClear \/ LookToRefused

SpecLock == InitLock /\ [][NextLock]_vars

\* C32: a generator the size-change handler removed failed the bell-count
\* check at the size the handler was called for, whatever arrived meanwhile
ClearedGeneratorFailedCheck ==
    threads.cleared.row_gen # NoGenerator
        => ~check_number_of_bells([bot EXCEPT !.number_of_bells = threads.cleared.number_of_bells],
                                  threads.cleared.row_gen)

\* a generator arrived while the size-change handler was running, and the
\* handler removed it
ClearedArrivalWitness ==
    /\ threads.overlap
    /\ threads.cleared.row_gen = PlainHuntGenerator(TowerBells + 1)
    /\ threads.size_handler = "idle"

\* C37: the generator that arrived last, unless the size-change handler
\* removed it, is either still the next generator or has become the current
\* one
ArrivedGeneratorNotDropped ==
    threads.arrived # NoGenerator
        => \/ bot.next_row_generator = threads.arrived
           \/ bot.row_generator.stage = threads.arrived.stage

\* ---------------------------------------------------------------------------
\* Bot.tick in two steps, before and after wait_for_bell_time, with the
\* callbacks of the tower arriving at any point of it.
\* ---------------------------------------------------------------------------

InitTicks ==
    /\ \E do_up_down_in \in BOOLEAN :
          bot = NewBot(PlainHuntGenerator(TowerBells), do_up_down_in, FALSE, FALSE)
    /\ threads = NewThreads
    /\ touch = NewTouch
    /\ \E assigned_users \in RingAssignments : tower = Tower(assigned_users)
    /\ rlog = NewRingLog
    /\ PmIdle /\ GenIdle /\ WfuIdle /\ RhyIdle

\* the bell a tick is about: its row, its place and the bell awaited or rung
TickEvent(b, bell) ==
    [n |-> threads.first.n + 1, row |-> b.row_number, place |-> b.place, bell |-> bell]

\* _on_look_to; it is noted when it is accepted during a touch while the
\* ringing loop is inside wait_for_bell_time
TicksLookTo ==
    /\ Callback
    /\ threads.touches < MaxTouches
    /\ bot' = on_look_to(bot)
    /\ threads' = [Called EXCEPT
                      !.touches = @ + 1,
                      !.look_to_in_tick =
                          \/ @
                          \/ LookToAccepted(bot) /\ bot.is_ringing /\ threads.main = "wait"]
    /\ UNCHANGED <<touch, pmVars, genVars, wfuVars, rhyVars, twrVars>>

\* _on_stop_touch
TicksStopTouch ==
    /\ Callback
    /\ bot' = on_stop_touch(bot)
    /\ threads' = Called
    /\ UNCHANGED <<touch, pmVars, genVars, wfuVars, rhyVars, twrVars>>

\* tick up to the call of wait_for_bell_time: the bell is read from the row
\* and the thread starts to sleep or to wait for the bell's user
TickEnter ==
    /\ threads.main = "ringing"
    /\ bot.is_ringing
    /\ bot.place + 1 >= bot.number_of_bells => bot.row_number < MaxBotRows
    /\ LET bell == bot.row[bot.place + 1]
       IN  threads' = [threads EXCEPT
                          !.main = "wait",
                          !.tick_bell = bell,
                          !.tick_user = ~bot_assigned_bell(tower, bell),
                          !.look_to_in_tick = FALSE,
                          !.first = IF threads.look_to_in_tick THEN TickEvent(bot, bell) ELSE @]
    /\ UNCHANGED <<bot, touch, pmVars, genVars, wfuVars, rhyVars, twrVars>>

\* tick from the return of wait_for_bell_time (the time has come, the user
\* has rung, or return_to_mainloop was called): a bell of Wheatley's is rung,
\* the calls are made at place 0, and the place moves on
TickLeave ==
    /\ threads.main = "wait"
    /\ bot' = tick(bot)
    /\ LET rung == threads.look_to_in_tick /\ ~threads.tick_user
       IN  threads' = [threads EXCEPT
                          !.main = "ringing",
                          !.look_to_in_tick = IF rung THEN FALSE ELSE @,
                          !.first = IF rung THEN TickEvent(bot, threads.tick_bell) ELSE @]
    /\ UNCHANGED <<touch, pmVars, genVars, wfuVars, rhyVars, twrVars>>

NextTicks ==
    \/ TicksLookTo \/ TicksStopTouch \/ BotAwaitLookTo \/ BotLoopExit
    \/ TickEnter \/ TickLeave

SpecTicks == InitTicks /\ [][NextTicks]_vars

\* C38: the first bell awaited or rung after a Look To that was handled
\* during a tick of a touch in progress is the bell at place 0 of row 0 of
\* the opening row
LookToRestartsAtLead ==
    threads.first.n > 0
        => /\ threads.first.row = 0
           /\ threads.first.place = 0
           /\ threads.first.bell = bot.opening_row[1]

\* ---------------------------------------------------------------------------
\* A touch rung on time: the rhythm that create_rhythm builds, Look To, and
\* then the users' bells ringing at the moments the line gives them.
\* ---------------------------------------------------------------------------

MaxLiveRows == 4    \* largest row number of the touch rung on time

\* create_rhythm: the regression rhythm, its minimum clamped to its maximum
create_rhythm(peal_speed, inertia, max_bells_in_dataset, initial_inertia) ==
    RegressionRhythm(inertia, peal_speed, initial_inertia,
                     IF 4 < max_bells_in_dataset THEN 4 ELSE max_bells_in_dataset,
                     max_bells_in_dataset)

\* --max_bells_in_dataset as given on the command line: below, at and above
\* the minimum that create_rhythm asks for
LiveDatasets == {2, 4, 5}

InitLive ==
    /\ \E inertia \in {QInt(0), <<1, 2>>}, max_bells_in_dataset \in LiveDatasets :
          rhy = create_rhythm(210, inertia, max_bells_in_dataset, QInt(0))
    /\ rhist = NewRhist
    /\ reg = NewReg
    /\ assigned \in {f \in Assignments : \E b \in Bells : f[b] # Wheatley}
    /\ wfu = NewWaitForUser /\ ring = NewRing /\ obs = NewObs
    /\ PmIdle /\ GenIdle /\ BotIdle /\ TwrIdle

\* the second at which the line has the bell of a row and place ring
OnTime(r, row_number, place) ==
    LET q == QAdd(r.start_time.q, QMul(QInt(index_to_blow_time(r, row_number, place)), r.blow_interval))
    IN  q[1] \div q[2]

\* the expected bell that is due first
DueFirst(r) ==
    CHOOSE k \in DOMAIN r.expected_bells :
        \A j \in DOMAIN r.expected_bells :
            index_to_blow_time(r, r.expected_bells[k][1], r.expected_bells[k][2])
                <= index_to_blow_time(r, r.expected_bells[j][1], r.expected_bells[j][2])

\* Look To may be called before the touch and after its last row
LookToDue == ~rhist.ringing \/ (rhist.row_number = MaxLiveRows /\ DOMAIN rhy.expected_bells = {})

\* an expected bell of a user is yet to ring
BellDue == rhist.ringing /\ DOMAIN rhy.expected_bells # {}

\* the row has been rung and the touch goes on
RowDue == rhist.ringing /\ DOMAIN rhy.expected_bells = {} /\ rhist.row_number < MaxLiveRows

\* look_to_has_been_called: initialise_line and the expectations of row 0
LiveLookTo ==
    /\ LookToDue
    /\ LET user_controls_treble == user_assigned_bell(1)
           number_of_user_controlled_bells ==
               Cardinality({b \in Bells : user_assigned_bell(b)})
           line == regression_initialise_line(rhy, NumBells, user_controls_treble,
                                              rhist.now + LookToSeconds,
                                              number_of_user_controlled_bells, 1)
       IN  /\ rhy' = RegExpectRow(line, rounds(NumBells), 0, 0)
           /\ rhist' = [rhist EXCEPT !.touches = 1, !.row_number = 0, !.ringing = TRUE,
                                     !.added = IF user_controls_treble THEN 0 ELSE 1]
           /\ reg' = [reg EXCEPT !.called = \/ @
                                            \/ /\ ~user_controls_treble
                                               /\ Regresses(rhy, 0, line.data_set)]
    /\ UNCHANGED <<assigned, wfu, ring, obs, pmVars, genVars, botVars, twrVars>>

\* on_bell_ring for the expected bell that is due, rung at its time (the
\* treble that pulls off rings when Look To has been said)
LiveBellRing ==
    /\ BellDue
    /\ LET k == DueFirst(rhy)
           row_number == rhy.expected_bells[k][1]
           place == rhy.expected_bells[k][2]
           real_time == IF rhy.start_time.kind = "fin" THEN OnTime(rhy, row_number, place)
                        ELSE rhist.now + LookToSeconds
           inner == regression_on_bell_ring(rhy, k[1], k[2], real_time, rhist.added + 1)
       IN  /\ rhy' = inner.obj
           /\ rhist' = [rhist EXCEPT !.added = @ + 1]
           /\ reg' = [reg EXCEPT !.called = @ \/ Regresses(rhy, row_number, inner.obj.data_set)]
    /\ UNCHANGED <<assigned, wfu, ring, obs, pmVars, genVars, botVars, twrVars>>

\* start_next_row: the bells of the next row are expected
LiveNextRow ==
    /\ RowDue
    /\ \E row \in RowsRung :
          rhy' = RegExpectRow(rhy, row, rhist.row_number + 1, 0)
    /\ rhist' = [rhist EXCEPT !.row_number = @ + 1]
    /\ UNCHANGED <<reg, assigned, wfu, ring, obs, pmVars, genVars, botVars, twrVars>>

NextLive == LiveLookTo \/ LiveBellRing \/ LiveNextRow

\* the three steps as the history shows them: each changes rhist in its own way
LookedTo == LookToDue /\ rhist' = [rhist EXCEPT !.touches = 1, !.row_number = 0, !.ringing = TRUE, !.added = IF user_assigned_bell(1) THEN 0 ELSE 1]
HasRung == BellDue /\ rhist' = [rhist EXCEPT !.added = @ + 1]
NextRowStarted == RowDue /\ rhist' = [rhist EXCEPT !.row_number = @ + 1]

\* Look To is called, every expected bell is rung by its user, and the loop
\* starts every row: none of them is put off for ever
SpecLive ==
    /\ InitLive
    /\ [][NextLive]_vars
    /\ WF_rhist(LookedTo) /\ WF_rhist(HasRung) /\ WF_rhist(NextRowStarted)

\* C39: with inertia below 1 and the rhythm as create_rhythm builds it, a
\* touch whose users' bells keep ringing on time sooner or later has its
\* regression line recomputed
LineEventuallyRecomputed == <>reg.called

====
